---------------------------- MODULE Spec2Model ----------------------------
(***************************************************************************)
(* Model of the race-condition attack engine of burp-mcp-server            *)
(* (internal/tools/race_request.go) and of the response parser it uses     *)
(* (internal/burp/parser.go).                                              *)
(*                                                                         *)
(* Conventions.                                                            *)
(*   - A Go string or []byte is a sequence of byte values (0..127; the     *)
(*     inputs are ASCII).  A Go slice s is a TLA+ sequence; the Go element *)
(*     s[i] is the TLA+ element s[i+1].                                    *)
(*   - A Go error is a sequence of strings, the chain of wrapped messages  *)
(*     outermost first; NoErr (the empty sequence) is nil.                 *)
(*   - A *bufio.Reader over a connection is the pair (data, pos) of the    *)
(*     bytes the peer delivers before the stream ends and the 1-based      *)
(*     position of the next unread byte; every read past the last byte     *)
(*     returns the stream's terminal error (EOF, or the socket deadline).  *)
(***************************************************************************)
EXTENDS Integers, Sequences, FiniteSets, TLC

VARIABLES
    pc,          \* position of the goroutine running executeRace
    count,       \* executeRace parameter count
    useTLS,      \* executeRace parameter useTLS
    bodyLimit,   \* executeRace parameter bodyLimit
    k,           \* index of the range loop the main goroutine is in
    dialPc,      \* per slot: position of the dial goroutine (lines 169-181)
    sock,        \* per slot: the OS socket dialled for it
    conns,       \* conns[idx] != nil  (slice of *raceConn)
    connErrors,  \* connErrors[idx]
    sent,        \* per slot: what was written to the socket, in order
    gate,        \* counter of the gate WaitGroup
    sendPc,      \* per slot: position of the final-byte goroutine (236-240)
    readPc,      \* per slot: position of the read goroutine (261-278)
    rx,          \* per slot: the stream the peer delivered to the reader
    results,     \* the results slice (nil before line 248)
    ret,         \* what executeRace returned
    fpc,         \* pure-function specifications: position
    fin,         \* pure-function specifications: the input
    fout         \* pure-function specifications: the output

vars == <<pc, count, useTLS, bodyLimit, k, dialPc, sock, conns, connErrors,
          sent, gate, sendPc, readPc, rx, results, ret, fpc, fin, fout>>

raceVars == <<pc, count, useTLS, bodyLimit, k, dialPc, sock, conns,
              connErrors, sent, gate, sendPc, readPc, rx, results, ret>>

funVars == <<fpc, fin, fout>>

-----------------------------------------------------------------------------
(* Bounds of the model *)

\* largest connection count an attack is run with
MaxCount == 3

-----------------------------------------------------------------------------
(* Bytes and the string functions of the Go standard library that the      *)
(* code calls                                                              *)

LF == 10
CR == 13
SP == 32

\* F(v), with v evaluated once (a let-binding)
With(v, F(_)) == CHOOSE y \in {F(x) : x \in {v}} : TRUE

\* unicode.IsSpace on ASCII: '\t', '\n', '\v', '\f', '\r', ' '
IsSpace(b) == b \in {9, 10, 11, 12, 13, 32}

\* strings.ToLower on ASCII
LowerByte(b) == IF b >= 65 /\ b <= 90 THEN b + 32 ELSE b
ToLower(s) == [i \in 1..Len(s) |-> LowerByte(s[i])]

\* strings.HasPrefix
HasPrefix(s, p) == Len(s) >= Len(p) /\ SubSeq(s, 1, Len(p)) = p

\* s[n:] with n a Go (0-based) offset
From(s, n) == SubSeq(s, n + 1, Len(s))

\* strings.Index as a 1-based position, 0 when sub does not occur in s
IndexOf(s, sub) ==
    LET hits == {i \in 1..(Len(s) - Len(sub) + 1) :
                    SubSeq(s, i, i + Len(sub) - 1) = sub}
    IN  IF hits = {} THEN 0
        ELSE CHOOSE i \in hits : \A j \in hits : i <= j

\* strings.Contains
Contains(s, sub) == IndexOf(s, sub) > 0

\* strings.TrimSpace
TrimSpace(s) ==
    LET keep == {i \in 1..Len(s) : ~IsSpace(s[i])}
    IN  IF keep = {} THEN <<>>
        ELSE SubSeq(s, CHOOSE i \in keep : \A j \in keep : i <= j,
                       CHOOSE i \in keep : \A j \in keep : i >= j)

IsDigit(b) == b >= 48 /\ b <= 57
IsHexDigit(b) == IsDigit(b) \/ (b >= 97 /\ b <= 102) \/ (b >= 65 /\ b <= 70)
HexVal(b) == IF IsDigit(b) THEN b - 48
             ELSE IF b >= 97 THEN b - 97 + 10 ELSE b - 65 + 10

RECURSIVE DigitsValue(_, _, _)
\* the value of the first n digits of s in the given base
DigitsValue(s, n, base) ==
    IF n = 0 THEN 0
    ELSE DigitsValue(s, n - 1, base) * base + HexVal(s[n])

\* The sign handling shared by strconv.Atoi and strconv.ParseInt: an optional
\* '+' or '-', then at least one digit of the base and nothing else.  The
\* model keeps numbers within 7 digits, so the range error of the library
\* (more than 63 bits) is outside its inputs.
ParseSigned(s, base) ==
    LET signed == s # <<>> /\ s[1] \in {43, 45}
        digits == IF signed THEN Tail(s) ELSE s
        ok     == /\ digits # <<>>
                  /\ \A i \in 1..Len(digits) :
                        IF base = 16 THEN IsHexDigit(digits[i])
                                     ELSE IsDigit(digits[i])
        mag    == IF ok THEN DigitsValue(digits, Len(digits), base) ELSE 0
    IN  [ok  |-> ok,
         val |-> IF signed /\ s[1] = 45 THEN 0 - mag ELSE mag]

\* strconv.Atoi(s)
Atoi(s) == ParseSigned(s, 10)

\* strconv.ParseInt(s, 16, 64)
ParseHex(s) == ParseSigned(s, 16)

\* strings.SplitN(s, " ", 3)[1] when the split has at least two parts:
\* the text between the first and the second space (to the end if there is
\* no second space); ok is len(parts) >= 2
SecondField(s) ==
    LET p1   == IndexOf(s, <<SP>>)
        rest == IF p1 = 0 THEN <<>> ELSE From(s, p1)
        p2   == IndexOf(rest, <<SP>>)
    IN  [ok  |-> p1 > 0,
         val |-> IF p2 = 0 THEN rest ELSE SubSeq(rest, 1, p2 - 1)]

-----------------------------------------------------------------------------
(* Errors *)

NoErr == <<>>

\* variant of Wrap: the error made is nil
WrapNil(msg, err) == NoErr

\* fmt.Errorf("<msg>: %w", err)
Wrap(msg, err) == <<msg>> \o err

-----------------------------------------------------------------------------
(* bufio.Reader over a stream  [data |-> bytes, end |-> terminal error]    *)

\* reader.ReadString('\n') from position pos: the line with its delimiter
\* and no error, or the rest of the stream and the terminal error
ReadString(st, pos) ==
    LET rest == SubSeq(st.data, pos, Len(st.data))
        p    == IndexOf(rest, <<LF>>)
    IN  IF p > 0
        THEN [line |-> SubSeq(rest, 1, p), next |-> pos + p, err |-> NoErr]
        ELSE [line |-> rest, next |-> Len(st.data) + 1, err |-> <<st.end>>]

\* readFull(reader, buf) with len(buf) = n > 0: n bytes, or the bytes that
\* are left and the terminal error
readFull(st, pos, n) ==
    LET avail == Len(st.data) - pos + 1
    IN  IF avail >= n
        THEN [buf |-> SubSeq(st.data, pos, pos + n - 1), next |-> pos + n,
              err |-> NoErr]
        ELSE [buf |-> SubSeq(st.data, pos, Len(st.data)),
              next |-> Len(st.data) + 1, err |-> <<st.end>>]


-----------------------------------------------------------------------------
(* The response reader (race_request.go, 313-422)                          *)

ContentLengthKey == <<99,111,110,116,101,110,116,45,108,101,110,103,116,104,58>>
    \* "content-length:"
TransferEncodingKey ==
    <<116,114,97,110,115,102,101,114,45,101,110,99,111,100,105,110,103,58>>
    \* "transfer-encoding:"
ChunkedWord == <<99,104,117,110,107,101,100>>       \* "chunked"

\* make([]byte, size) panics on a negative length (the goroutine that runs
\* it takes the process down)
MakePanics(size) == size < 0

\* ReadChunk without line 406: the line end after the chunk is left unread
ReadChunkNoLineEnd(st, pos, size, body) ==
    With(readFull(st, pos, size), LAMBDA rf :
      [body |-> body \o rf.buf, err |-> rf.err, next |-> rf.next])

\* lines 398-406 of readChunkedBody: read a chunk of size bytes at pos, add
\* it to body and pass the line end that follows it
ReadChunk(st, pos, size, body) ==
    With(readFull(st, pos, size), LAMBDA rf :
      [body |-> body \o rf.buf, err |-> rf.err,
       next |-> ReadString(st, rf.next).next])

RECURSIVE readChunkedLoop(_, _, _)
\* The for loop of readChunkedBody, entered with the reader at pos and body
\* holding the chunks decoded so far
readChunkedLoop(st, pos, body) ==
    With(ReadString(st, pos), LAMBDA sl :
      IF sl.err # NoErr
      THEN [body |-> body, err |-> sl.err, panic |-> FALSE]
      ELSE With(ParseHex(TrimSpace(sl.line)), LAMBDA size :
        IF ~size.ok
        THEN [body |-> body, err |-> NoErr, panic |-> FALSE]
        ELSE IF size.val = 0
        THEN [body |-> body, err |-> NoErr, panic |-> FALSE]
        ELSE IF MakePanics(size.val)
        THEN [body |-> body, err |-> NoErr, panic |-> TRUE]
        ELSE With(ReadChunk(st, sl.next, size.val, body), LAMBDA c :
          IF c.err # NoErr
          THEN [body |-> c.body, err |-> c.err, panic |-> FALSE]
          ELSE readChunkedLoop(st, c.next, c.body))))

\* readChunkedBody(reader) with the reader at pos
readChunkedBody(st, pos) == readChunkedLoop(st, pos, <<>>)

\* One header line's effect on contentLength (lines 340-346)
HeaderContentLength(trimmed, contentLength) ==
    IF HasPrefix(ToLower(trimmed), ContentLengthKey)
    THEN LET cl == Atoi(TrimSpace(From(trimmed, Len(ContentLengthKey))))
         IN  IF cl.ok THEN cl.val ELSE contentLength
    ELSE contentLength

\* One header line's effect on chunked (lines 348-354)
HeaderChunked(trimmed, chunked) ==
    IF HasPrefix(ToLower(trimmed), TransferEncodingKey)
    THEN LET val == TrimSpace(From(trimmed, Len(TransferEncodingKey)))
         IN  chunked \/ Contains(ToLower(val), ChunkedWord)
    ELSE chunked

RECURSIVE readHeaders(_, _, _, _, _)
\* The header loop of readHTTPResponse (lines 328-355)
readHeaders(st, pos, response, contentLength, chunked) ==
    With(ReadString(st, pos), LAMBDA l :
      With(TrimSpace(l.line), LAMBDA trimmed :
        IF l.err # NoErr
        THEN [err |-> Wrap("reading headers", l.err), response |-> <<>>,
              next |-> l.next, contentLength |-> contentLength,
              chunked |-> chunked]
        ELSE IF trimmed = <<>>
        THEN [err |-> NoErr, response |-> response \o l.line,
              next |-> l.next, contentLength |-> contentLength,
              chunked |-> chunked]
        ELSE readHeaders(st, l.next, response \o l.line,
                         HeaderContentLength(trimmed, contentLength),
                         HeaderChunked(trimmed, chunked))))

\* The chunked branch of readHTTPResponse (lines 358-363, 374): what it
\* returns given the headers read and the result cb of readChunkedBody
ChunkedOutcome(response, cb) ==
    IF cb.err # NoErr THEN [resp |-> response, err |-> NoErr]
    ELSE [resp |-> response \o cb.body, err |-> NoErr]

\* The Content-Length branch (lines 364-371, 374): rf is the result of
\* readFull
FixedOutcome(response, rf) ==
    IF rf.err # NoErr /\ Len(rf.buf) = 0 THEN [resp |-> response, err |-> NoErr]
    ELSE [resp |-> response \o rf.buf, err |-> NoErr]

\* lines 357-374: the body, given the result h of the header loop
readBody(st, h) ==
    IF h.chunked
    THEN With(readChunkedBody(st, h.next), LAMBDA cb :
           [resp  |-> ChunkedOutcome(h.response, cb).resp,
            err   |-> ChunkedOutcome(h.response, cb).err,
            panic |-> cb.panic])
    ELSE IF h.contentLength > 0
    THEN With(readFull(st, h.next, h.contentLength), LAMBDA rf :
           [resp  |-> FixedOutcome(h.response, rf).resp,
            err   |-> FixedOutcome(h.response, rf).err,
            panic |-> FALSE])
    ELSE [resp |-> h.response, err |-> NoErr, panic |-> FALSE]

\* readHTTPResponse(reader) on a fresh reader over st: resp and err are its
\* two results; panic: the call panicked instead of returning
readHTTPResponse(st) ==
    With(ReadString(st, 1), LAMBDA sl :
      IF sl.err # NoErr
      THEN [resp |-> <<>>, err |-> Wrap("reading status line", sl.err),
            panic |-> FALSE]
      ELSE With(readHeaders(st, sl.next, sl.line, 0 - 1, FALSE), LAMBDA h :
        IF h.err # NoErr
        THEN [resp |-> <<>>, err |-> h.err, panic |-> FALSE]
        ELSE readBody(st, h)))

-----------------------------------------------------------------------------
(* ParseHTTPResponse (parser.go, 71-163); the Headers map is not modelled, *)
(* the race engine reads StatusCode and Body only                          *)

CRLFCRLF == <<13, 10, 13, 10>>
LFLF == <<10, 10>>

\* lines 86-95: the header section and the body bytes
SplitHeadBody(raw) ==
    LET a == IndexOf(raw, CRLFCRLF)
        b == IndexOf(raw, LFLF)
    IN  IF a > 0 THEN [head |-> SubSeq(raw, 1, a - 1), body |-> From(raw, a + 3)]
        ELSE IF b > 0
        THEN [head |-> SubSeq(raw, 1, b - 1), body |-> From(raw, b + 1)]
        ELSE [head |-> raw, body |-> <<>>]

\* lines 100-114: the status line and the status code
ParseStatus(head) ==
    LET p          == IndexOf(head, <<LF>>)
        statusLine == TrimSpace(IF p > 0 THEN SubSeq(head, 1, p) ELSE head)
        f          == SecondField(statusLine)
        code       == Atoi(f.val)
    IN  [StatusLine |-> statusLine,
         StatusCode |-> IF f.ok /\ code.ok THEN code.val ELSE 0]

\* LimitBody that also cuts a body of exactly limit bytes
LimitBodyAtLimit(bodyBytes, bodyOffset, limit) ==
    IF bodyBytes = <<>> THEN [Body |-> <<>>, Truncated |-> FALSE]
    ELSE [Body |-> IF limit > 0 /\ Len(bodyBytes) >= limit
                   THEN SubSeq(bodyBytes, 1, limit) ELSE bodyBytes,
          Truncated |-> limit > 0 /\ Len(bodyBytes) >= limit]

\* lines 143-160: offset, then limit
LimitBody(bodyBytes, bodyOffset, limit) ==
    LET off == IF bodyOffset > 0
               THEN IF bodyOffset >= Len(bodyBytes) THEN <<>>
                    ELSE From(bodyBytes, bodyOffset)
               ELSE bodyBytes
        cut == limit > 0 /\ Len(off) > limit
    IN  IF bodyBytes = <<>> THEN [Body |-> <<>>, Truncated |-> FALSE]
        ELSE [Body |-> IF cut THEN SubSeq(off, 1, limit) ELSE off,
              Truncated |-> cut]

\* ParseHTTPResponse(raw, bodyOffset, bodyLimit); isNil: it returned nil
ParseHTTPResponse(raw, bodyOffset, limit) ==
    IF raw = <<>>
    THEN [isNil |-> TRUE, StatusCode |-> 0, StatusLine |-> <<>>,
          Body |-> <<>>, BodySize |-> 0, Truncated |-> FALSE]
    ELSE With(SplitHeadBody(raw), LAMBDA hb :
           With(ParseStatus(hb.head), LAMBDA s :
             With(LimitBody(hb.body, bodyOffset, limit), LAMBDA b :
               [isNil |-> FALSE, StatusCode |-> s.StatusCode,
                StatusLine |-> s.StatusLine, Body |-> b.Body,
                BodySize |-> Len(hb.body), Truncated |-> b.Truncated])))

-----------------------------------------------------------------------------
(* RaceResponseEntry and the read goroutine (race_request.go, 42-47 and    *)
(* 261-278)                                                                *)

\* The Body string of an entry is either response bytes (kind "text") or a
\* formatted error: fmt.Sprintf("<kind>: %v", err)
TextBody(bytes) == [kind |-> "text", text |-> bytes, err |-> NoErr]
ErrorBody(kind, err) == [kind |-> kind, text |-> <<>>, err |-> err]

\* the zero value of RaceResponseEntry
ZeroEntry == [Index |-> 0, StatusCode |-> 0, Body |-> TextBody(<<>>)]

\* lines 253-257
FailedEntry(i, err) ==
    [Index |-> i, StatusCode |-> 0, Body |-> ErrorBody("connection failed", err)]

\* lines 271-277: the entry made from the response text resp
ParsedEntry(idx, resp, limit) ==
    With(ParseHTTPResponse(resp, 0, limit), LAMBDA parsed :
      IF parsed.isNil
      THEN [Index |-> idx, StatusCode |-> 0, Body |-> TextBody(<<>>)]
      ELSE [Index |-> idx, StatusCode |-> parsed.StatusCode,
            Body |-> TextBody(parsed.Body)])

\* lines 263-277: the entry the read goroutine of slot idx stores, or panic
readTask(idx, st, limit) ==
    With(readHTTPResponse(st), LAMBDA r :
      IF r.panic THEN [panic |-> TRUE, entry |-> ZeroEntry]
      ELSE IF r.err # NoErr
      THEN [panic |-> FALSE,
            entry |-> [Index |-> idx, StatusCode |-> 0,
                       Body |-> ErrorBody("read error", r.err)]]
      ELSE [panic |-> FALSE, entry |-> ParsedEntry(idx, r.resp, limit)])

-----------------------------------------------------------------------------
(* executeRace (race_request.go, 154-283) and dialConn (286-311)           *)

Slots == 0..(count - 1)

\* Go slice element s[i]
At(s, i) == s[i + 1]

\* variant of Set: every store goes to element 0
SetFirst(s, i, v) == [s EXCEPT ![1] = v]

\* s with s[i] = v
Set(s, i, v) == [s EXCEPT ![i + 1] = v]

\* errors dialer.DialContext can return, and the one of HandshakeContext
DialErrors == {"connection refused", "i/o timeout"}
HandshakeError == "tls: handshake failure"

\* errors a write to the socket can return
WriteErrors == {"broken pipe"}

\* a reader nobody has read from
NoStream == [data |-> <<>>, end |-> "none"]

\* the process is running (no goroutine has panicked)
Alive == pc # "aborted"

\* a loop over the count slots: the position after the body ran for slot j
LoopNext(j, again, after) == IF j + 1 < count THEN again ELSE after

\* variant of DialFailed: a failed dial cancels the dials still under way
DialFailedAbortsAll(dp, i) ==
    [j \in DOMAIN dp |-> IF j = i THEN "failed"
                         ELSE IF dp[j] \in {"ok", "failed"} THEN dp[j]
                         ELSE "aborted"]

\* lines 172-175: the dial goroutine of slot i after dialConn failed
DialFailed(dp, i) == [dp EXCEPT ![i] = "failed"]

\* variant of HandshakeFailSock: the TCP socket is left open
HandshakeFailSockLeak == "open"

\* line 307: what dialConn does to the TCP socket when the handshake fails
HandshakeFailSock == "closed"

\* variant of AllDialsFailed: any failed dial counts as total failure
AllDialsFailedAny(ready, n) == ready < n

\* lines 195-201: no connection is usable
AllDialsFailed(ready, n) == ready = 0

\* variant of AggregateError: the error of the last slot is cited
AggregateErrorLast(errs) == Wrap("all connections failed", errs[Len(errs)])

\* line 202: fmt.Errorf("all %d connections failed: %v", count, connErrors[0])
AggregateError(errs) == Wrap("all connections failed", At(errs, 0))

\* lines 186-192: the deferred cleanup
CloseAll(sk, cs) ==
    [i \in DOMAIN sk |-> IF At(cs, i) THEN "closed" ELSE sk[i]]

\* variant of SkipNil: break instead of continue
SkipNilBreak(j, n) == n

\* lines 210-212: the slot index the prefix loop goes to after a nil slot
SkipNil(j, n) == j + 1

\* variant of DropConn: the slot keeps its connection
DropConnForgotten(cs, i) == cs

\* lines 216 and 222: conns[i] = nil
DropConn(cs, i) == Set(cs, i, FALSE)

\* line 248
MakeResults(n) == [j \in 1..n |-> ZeroEntry]

\* variant of ResultSlot: every read goroutine stores into the same element
ResultSlotShared(idx) == 0

\* lines 265 and 277: the element of results the read goroutine started
\* with idx stores into
ResultSlot(idx) == idx

-----------------------------------------------------------------------------
(* Streams the target answers with in an attack                            *)

StatusLine200 == <<72,84,84,80,47,49,46,49,32,50,48,48,32,79,75,13,10>>
    \* "HTTP/1.1 200 OK\r\n"
StatusLine404 ==
    <<72,84,84,80,47,49,46,49,32,52,48,52,32,78,111,116,32,70,111,117,110,100,13,10>>
    \* "HTTP/1.1 404 Not Found\r\n"
HdrCL3 == <<67,111,110,116,101,110,116,45,76,101,110,103,116,104,58,32,51,13,10>>
    \* "Content-Length: 3\r\n"
HdrTE ==
    <<84,114,97,110,115,102,101,114,45,69,110,99,111,100,105,110,103,58,32,99,104,117,110,107,101,100,13,10>>
    \* "Transfer-Encoding: chunked\r\n"
CRLF == <<13, 10>>

RaceStreams ==
    { \* a complete 200 with body "abc"
      [data |-> StatusLine200 \o HdrCL3 \o CRLF \o <<97, 98, 99>>, end |-> "EOF"],
      \* a 404 whose body stops after "ab"
      [data |-> StatusLine404 \o HdrCL3 \o CRLF \o <<97, 98>>, end |-> "EOF"],
      \* the stream ends inside the headers
      [data |-> StatusLine200 \o SubSeq(HdrCL3, 1, 9), end |-> "EOF"],
      \* nothing arrives before the deadline
      [data |-> <<>>, end |-> "i/o timeout"],
      \* a chunked 200 with the chunk size line "-1"
      [data |-> StatusLine200 \o HdrTE \o CRLF \o <<45, 49, 13, 10>>,
       end |-> "EOF"] }

-----------------------------------------------------------------------------
(* The attack as a state machine                                           *)

NotReturned == [returned |-> FALSE, isNil |-> TRUE, results |-> <<>>,
                err |-> NoErr]

FunIdle == /\ fpc = "off"
           /\ fin = <<>>
           /\ fout = <<>>

Init ==
    /\ pc = "dial_spawn"
    /\ count \in 1..MaxCount
    /\ useTLS \in BOOLEAN
    /\ bodyLimit \in {2, 500}
    /\ k = 0
    /\ dialPc = [i \in Slots |-> "none"]
    /\ sock = [i \in Slots |-> "none"]
    /\ conns = [j \in 1..count |-> FALSE]
    /\ connErrors = [j \in 1..count |-> NoErr]
    /\ sent = [i \in Slots |-> <<>>]
    /\ gate = 0
    /\ sendPc = [i \in Slots |-> "none"]
    /\ readPc = [i \in Slots |-> "none"]
    /\ rx = [i \in Slots |-> NoStream]
    /\ results = <<>>
    /\ ret = NotReturned
    /\ FunIdle

\* lines 167-182: start the dial goroutine of slot k
DialSpawn ==
    /\ pc = "dial_spawn"
    /\ dialPc' = [dialPc EXCEPT ![k] = "dial"]
    /\ k' = k + 1
    /\ pc' = LoopNext(k, "dial_spawn", "dial_wait")
    /\ UNCHANGED <<count, useTLS, bodyLimit, sock, conns, connErrors, sent,
                   gate, sendPc, readPc, rx, results, ret, funVars>>

\* lines 291-294 and 172-175: DialContext fails
DialTCPFail(i) ==
    /\ Alive
    /\ dialPc[i] = "dial"
    /\ \E e \in DialErrors : connErrors' = Set(connErrors, i, <<e>>)
    /\ dialPc' = DialFailed(dialPc, i)
    /\ UNCHANGED <<pc, count, useTLS, bodyLimit, k, sock, conns, sent, gate,
                   sendPc, readPc, rx, results, ret, funVars>>

\* lines 291-299 and 176-180: DialContext succeeds; without TLS the
\* connection is stored
DialTCPOk(i) ==
    /\ Alive
    /\ dialPc[i] = "dial"
    /\ sock' = [sock EXCEPT ![i] = "open"]
    /\ IF useTLS
       THEN /\ dialPc' = [dialPc EXCEPT ![i] = "handshake"]
            /\ conns' = conns
       ELSE /\ dialPc' = [dialPc EXCEPT ![i] = "ok"]
            /\ conns' = Set(conns, i, TRUE)
    /\ UNCHANGED <<pc, count, useTLS, bodyLimit, k, connErrors, sent, gate,
                   sendPc, readPc, rx, results, ret, funVars>>

\* lines 306-309 and 172-175: the TLS handshake fails
HandshakeFail(i) ==
    /\ Alive
    /\ dialPc[i] = "handshake"
    /\ sock' = [sock EXCEPT ![i] = HandshakeFailSock]
    /\ connErrors' = Set(connErrors, i, <<HandshakeError>>)
    /\ dialPc' = DialFailed(dialPc, i)
    /\ UNCHANGED <<pc, count, useTLS, bodyLimit, k, conns, sent, gate,
                   sendPc, readPc, rx, results, ret, funVars>>

\* lines 306-310 and 176-180: the TLS handshake succeeds
HandshakeOk(i) ==
    /\ Alive
    /\ dialPc[i] = "handshake"
    /\ dialPc' = [dialPc EXCEPT ![i] = "ok"]
    /\ conns' = Set(conns, i, TRUE)
    /\ UNCHANGED <<pc, count, useTLS, bodyLimit, k, sock, connErrors, sent,
                   gate, sendPc, readPc, rx, results, ret, funVars>>

\* variant of DialFinished: connWg.Wait() waits only for the goroutines to
\* have been started
DialStarted(i) == dialPc[i] # "none"

\* a dial goroutine that has called connWg.Done()
DialFinished(i) == dialPc[i] \in {"ok", "failed", "aborted"}

\* lines 183-203: connWg.Wait() returns; count the usable slots; with none,
\* return the aggregate error (the deferred cleanup runs)
DialJoin ==
    /\ pc = "dial_wait"
    /\ \A i \in Slots : DialFinished(i)
    /\ LET ready == Cardinality({i \in Slots : At(conns, i)})
       IN  IF AllDialsFailed(ready, count)
           THEN /\ pc' = "returned"
                /\ ret' = [returned |-> TRUE, isNil |-> TRUE, results |-> <<>>,
                           err |-> AggregateError(connErrors)]
                /\ sock' = CloseAll(sock, conns)
                /\ k' = k
           ELSE /\ pc' = "prefix"
                /\ k' = 0
                /\ UNCHANGED <<ret, sock>>
    /\ UNCHANGED <<count, useTLS, bodyLimit, dialPc, conns, connErrors, sent,
                   gate, sendPc, readPc, rx, results, funVars>>

\* lines 209-212: the prefix loop passes a nil slot
PrefixSkip ==
    /\ pc = "prefix"
    /\ ~At(conns, k)
    /\ LET j == SkipNil(k, count)
       IN  /\ k' = j
           /\ pc' = IF j < count THEN "prefix" ELSE "gate_add"
    /\ UNCHANGED <<count, useTLS, bodyLimit, dialPc, sock, conns, connErrors,
                   sent, gate, sendPc, readPc, rx, results, ret, funVars>>

\* lines 213-224: Write and Flush of the prefix succeed on slot k
PrefixOk ==
    /\ pc = "prefix"
    /\ At(conns, k)
    /\ sent' = [sent EXCEPT ![k] = Append(@, "prefix")]
    /\ k' = k + 1
    /\ pc' = LoopNext(k, "prefix", "gate_add")
    /\ UNCHANGED <<count, useTLS, bodyLimit, dialPc, sock, conns, connErrors,
                   gate, sendPc, readPc, rx, results, ret, funVars>>

\* lines 213-223: Write (stage "prefix write") or Flush (stage "prefix
\* flush") of the prefix fails on slot k
PrefixFail ==
    /\ pc = "prefix"
    /\ At(conns, k)
    /\ \E stage \in {"prefix write", "prefix flush"}, e \in WriteErrors :
          connErrors' = Set(connErrors, k, Wrap(stage, <<e>>))
    /\ sock' = [sock EXCEPT ![k] = "closed"]
    /\ conns' = DropConn(conns, k)
    /\ k' = k + 1
    /\ pc' = LoopNext(k, "prefix", "gate_add")
    /\ UNCHANGED <<count, useTLS, bodyLimit, dialPc, sent, gate, sendPc,
                   readPc, rx, results, ret, funVars>>

\* lines 227-229: gate.Add(1)
GateAdd ==
    /\ pc = "gate_add"
    /\ gate' = gate + 1
    /\ k' = 0
    /\ pc' = "send_spawn"
    /\ UNCHANGED <<count, useTLS, bodyLimit, dialPc, sock, conns, connErrors,
                   sent, sendPc, readPc, rx, results, ret, funVars>>

\* lines 231-241: pass a nil slot, or start the final-byte goroutine of
\* slot k
SendSpawn ==
    /\ pc = "send_spawn"
    /\ sendPc' = IF At(conns, k) THEN [sendPc EXCEPT ![k] = "spawned"]
                 ELSE sendPc
    /\ k' = k + 1
    /\ pc' = LoopNext(k, "send_spawn", "gate_done")
    /\ UNCHANGED <<count, useTLS, bodyLimit, dialPc, sock, conns, connErrors,
                   sent, gate, readPc, rx, results, ret, funVars>>

\* line 244: gate.Done()
GateDone ==
    /\ pc = "gate_done"
    /\ gate' = gate - 1
    /\ pc' = "send_wait"
    /\ UNCHANGED <<count, useTLS, bodyLimit, k, dialPc, sock, conns,
                   connErrors, sent, sendPc, readPc, rx, results, ret, funVars>>

\* SendArrive with a gate.Wait() that never blocks
SendArriveIgnoresGate(i) ==
    /\ Alive
    /\ sendPc[i] = "spawned"
    /\ sendPc' = [sendPc EXCEPT ![i] = "released"]
    /\ UNCHANGED <<pc, count, useTLS, bodyLimit, k, dialPc, sock, conns,
                   connErrors, sent, gate, readPc, rx, results, ret, funVars>>

\* line 238: the goroutine calls gate.Wait(): it blocks while the counter
\* is positive and returns at once when it is zero
SendArrive(i) ==
    /\ Alive
    /\ sendPc[i] = "spawned"
    /\ sendPc' = [sendPc EXCEPT ![i] = IF gate > 0 THEN "waiting" ELSE "released"]
    /\ UNCHANGED <<pc, count, useTLS, bodyLimit, k, dialPc, sock, conns,
                   connErrors, sent, gate, readPc, rx, results, ret, funVars>>

\* line 238: gate.Wait() returns in a goroutine blocked on it
SendWake(i) ==
    /\ Alive
    /\ sendPc[i] = "waiting"
    /\ gate = 0
    /\ sendPc' = [sendPc EXCEPT ![i] = "released"]
    /\ UNCHANGED <<pc, count, useTLS, bodyLimit, k, dialPc, sock, conns,
                   connErrors, sent, gate, readPc, rx, results, ret, funVars>>

\* lines 237-239: c.conn.Write(lastByte); its result is dropped
SendWrite(i) ==
    /\ Alive
    /\ sendPc[i] = "released"
    /\ \E ok \in BOOLEAN :
          sent' = IF ok THEN [sent EXCEPT ![i] = Append(@, "last")] ELSE sent
    /\ sendPc' = [sendPc EXCEPT ![i] = "done"]
    /\ UNCHANGED <<pc, count, useTLS, bodyLimit, k, dialPc, sock, conns,
                   connErrors, gate, readPc, rx, results, ret, funVars>>

\* lines 245-249: sendWg.Wait() returns; results is allocated
SendJoin ==
    /\ pc = "send_wait"
    /\ \A i \in Slots : sendPc[i] \in {"none", "done"}
    /\ results' = MakeResults(count)
    /\ k' = 0
    /\ pc' = "read_spawn"
    /\ UNCHANGED <<count, useTLS, bodyLimit, dialPc, sock, conns, connErrors,
                   sent, gate, sendPc, readPc, rx, ret, funVars>>

\* lines 251-279: store the placeholder of a nil slot, or start the read
\* goroutine of slot k
ReadSpawn ==
    /\ pc = "read_spawn"
    /\ IF At(conns, k)
       THEN /\ readPc' = [readPc EXCEPT ![k] = "spawned"]
            /\ results' = results
       ELSE /\ results' = Set(results, k, FailedEntry(k, At(connErrors, k)))
            /\ readPc' = readPc
    /\ k' = k + 1
    /\ pc' = LoopNext(k, "read_spawn", "read_wait")
    /\ UNCHANGED <<count, useTLS, bodyLimit, dialPc, sock, conns, connErrors,
                   sent, gate, sendPc, rx, ret, funVars>>

\* lines 261-278: the read goroutine of slot i reads the stream st the
\* target delivers and stores its entry, or panics and ends the process
ReadTask(i) ==
    /\ Alive
    /\ readPc[i] = "spawned"
    /\ \E st \in RaceStreams :
          \E r \in {readTask(i, st, bodyLimit)} :
              /\ rx' = [rx EXCEPT ![i] = st]
              /\ IF r.panic
                 THEN /\ pc' = "aborted"
                      /\ readPc' = [readPc EXCEPT ![i] = "panicked"]
                      /\ results' = results
                 ELSE /\ pc' = pc
                      /\ readPc' = [readPc EXCEPT ![i] = "done"]
                      /\ results' = Set(results, ResultSlot(i), r.entry)
    /\ UNCHANGED <<count, useTLS, bodyLimit, k, dialPc, sock, conns,
                   connErrors, sent, gate, sendPc, ret, funVars>>

\* lines 280-282 and 186-192: readWg.Wait() returns; return the results
\* (the deferred cleanup runs)
ReadJoin ==
    /\ pc = "read_wait"
    /\ \A i \in Slots : readPc[i] \in {"none", "done"}
    /\ ret' = [returned |-> TRUE, isNil |-> FALSE, results |-> results,
               err |-> NoErr]
    /\ sock' = CloseAll(sock, conns)
    /\ pc' = "returned"
    /\ UNCHANGED <<count, useTLS, bodyLimit, k, dialPc, conns, connErrors,
                   sent, gate, sendPc, readPc, rx, results, funVars>>

Next ==
    \/ DialSpawn
    \/ \E i \in Slots : DialTCPFail(i)
    \/ \E i \in Slots : DialTCPOk(i)
    \/ \E i \in Slots : HandshakeFail(i)
    \/ \E i \in Slots : HandshakeOk(i)
    \/ DialJoin
    \/ PrefixSkip
    \/ PrefixOk
    \/ PrefixFail
    \/ GateAdd
    \/ SendSpawn
    \/ GateDone
    \/ \E i \in Slots : SendArrive(i)
    \/ \E i \in Slots : SendWake(i)
    \/ \E i \in Slots : SendWrite(i)
    \/ SendJoin
    \/ ReadSpawn
    \/ \E i \in Slots : ReadTask(i)
    \/ ReadJoin

Spec == Init /\ [][Next]_vars

-----------------------------------------------------------------------------
(* Properties of executeRace                                               *)

Range(s) == {s[j] : j \in DOMAIN s}

\* the prefix write or flush of slot i failed
PrefixFailed(i) ==
    /\ At(connErrors, i) # NoErr
    /\ Head(At(connErrors, i)) \in {"prefix write", "prefix flush"}

\* the final byte was written on slot i
LastSent(i) == "last" \in Range(sent[i])

\* C1: when at least one dial succeeded, executeRace returns no error and a
\* result list with one entry per requested connection; the entry of a slot
\* that never connected has StatusCode 0 and an error text as its Body
C1_OneEntryPerSlot ==
    (pc = "returned" /\ \E i \in Slots : dialPc[i] = "ok") =>
        /\ ret.err = NoErr
        /\ ~ret.isNil
        /\ Len(ret.results) = count
        /\ \A i \in Slots :
              dialPc[i] # "ok" =>
                  /\ At(ret.results, i).StatusCode = 0
                  /\ At(ret.results, i).Body.kind = "connection failed"
                  /\ At(ret.results, i).Body.err # NoErr
                  /\ At(ret.results, i).Body.text = <<>>

\* a run that returned after a dial failure on one slot, a prefix failure on
\* another and a read error on a third
C1_Witness ==
    /\ pc = "returned"
    /\ \E a, b, c \in Slots :
          /\ dialPc[a] = "failed"
          /\ dialPc[b] = "ok" /\ PrefixFailed(b)
          /\ dialPc[c] = "ok" /\ readPc[c] = "done"
          /\ At(ret.results, c).Body.kind = "read error"

\* C2: the entry at position i has Index i and holds the outcome of slot i
\* (the response read from slot i's connection, or slot i's error), in every
\* interleaving of the read goroutines
C2_EntryIsSlot ==
    /\ \A i \in Slots :
          readPc[i] = "done" =>
              /\ At(results, i).Index = i
              /\ At(results, i) = readTask(i, rx[i], bodyLimit).entry
    /\ pc = "returned" /\ ~ret.isNil =>
          /\ ret.results = results
          /\ \A i \in Slots :
                /\ At(ret.results, i).Index = i
                /\ readPc[i] = "none" =>
                      At(ret.results, i) = FailedEntry(i, At(connErrors, i))

\* a later slot has stored its response while an earlier slot is still
\* reading
C2_Witness ==
    \E i, j \in Slots :
        /\ i < j
        /\ readPc[i] = "spawned"
        /\ readPc[j] = "done"
        /\ At(results, j).StatusCode = 404

\* C3: when the final byte has been written on some slot, every slot that
\* still holds a connection has had its prefix written (and every other
\* connected slot has failed its prefix attempt and lost its connection)
C3_PrefixesBeforeLastByte ==
    \A i, j \in Slots :
        LastSent(i) => (At(conns, j) => "prefix" \in Range(sent[j]))

\* a final byte is on the wire after one prefix succeeded, a later prefix
\* failed and a nil slot was passed
C3_Witness ==
    \E i, j, n \in Slots :
        /\ LastSent(i)
        /\ PrefixFailed(j) /\ i < j
        /\ dialPc[n] = "failed" /\ n < i

\* C4: at the moment the gate is opened, the final-byte goroutine of every
\* surviving slot is already blocked on it: once the gate is open, no such
\* goroutine is still on its way to gate.Wait()
C4_AllWaitingWhenGateOpens ==
    (pc \in {"send_wait", "read_spawn", "read_wait", "returned"} /\ gate = 0) =>
        \A i \in Slots : sendPc[i] # "spawned"

\* C5: when every dial failed, executeRace returns no result list and one
\* aggregate error citing slot 0's dial error, which is a real error
C5_AggregateDialError ==
    (pc = "returned" /\ \A i \in Slots : dialPc[i] = "failed") =>
        /\ ret.isNil
        /\ ret.results = <<>>
        /\ results = <<>>
        /\ At(connErrors, 0) # NoErr
        /\ Head(At(connErrors, 0)) \in DialErrors \cup {HandshakeError}
        /\ ret.err = <<"all connections failed">> \o At(connErrors, 0)

\* every dial failed, and not all with the same error
C5_Witness ==
    /\ pc = "returned"
    /\ count > 1
    /\ \A i \in Slots : dialPc[i] = "failed"
    /\ \E i \in Slots : At(connErrors, i) # At(connErrors, 0)

\* C6: when executeRace has returned, no socket it opened is still open
C6_SocketsClosed ==
    pc = "returned" => \A i \in Slots : sock[i] # "open"

\* a normal return after a handshake failure, a prefix failure and a read
C6_Witness ==
    /\ pc = "returned"
    /\ \E a, b, c \in Slots :
          /\ dialPc[a] = "failed" /\ sock[a] = "closed"
          /\ PrefixFailed(b) /\ sock[b] = "closed"
          /\ readPc[c] = "done" /\ sock[c] = "closed"

\* C7: a failed dial leaves its slot with an error and without a connection,
\* and when the dial phase has been joined every slot's dial has run to its
\* own success or failure
C7_DialsIndependent ==
    /\ \A i \in Slots :
          dialPc[i] = "failed" =>
              /\ At(connErrors, i) # NoErr
              /\ ~At(conns, i)
              /\ sock[i] # "open"
    /\ pc \notin {"dial_spawn", "dial_wait"} =>
          \A i \in Slots :
              /\ dialPc[i] \in {"ok", "failed"}
              /\ dialPc[i] = "ok" => sock[i] # "none"

\* the dial phase was joined with the first slot failed and a later one
\* connected
C7_Witness ==
    /\ pc = "prefix"
    /\ k = 0
    /\ dialPc[0] = "failed"
    /\ \E j \in Slots : dialPc[j] = "ok" /\ At(conns, j)

\* C8: a slot whose prefix write or flush failed gets no final-byte
\* goroutine and no read goroutine, nothing more is written on it, and its
\* entry has StatusCode 0 and the prefix error as its text
C8_PrefixFailureExcluded ==
    \A i \in Slots :
        PrefixFailed(i) =>
            /\ sendPc[i] = "none"
            /\ readPc[i] = "none"
            /\ sent[i] = <<>>
            /\ rx[i] = NoStream
            /\ sock[i] = "closed"
            /\ pc = "returned" =>
                  At(ret.results, i) =
                      [Index |-> i, StatusCode |-> 0,
                       Body |-> ErrorBody("connection failed",
                                          At(connErrors, i))]

\* a run returned with one slot failed at its prefix and another answered
C8_Witness ==
    /\ pc = "returned"
    /\ \E i, j \in Slots :
          /\ PrefixFailed(i)
          /\ readPc[j] = "done" /\ LastSent(j)
          /\ At(ret.results, j).StatusCode = 200

-----------------------------------------------------------------------------
(* The response reader on its own: readHTTPResponse and the read goroutine *)
(* applied to responses that stop at every possible byte                   *)

HdrCL5 == <<99,111,110,116,101,110,116,45,108,101,110,103,116,104,58,32,53,13,10>>
    \* "content-length: 5\r\n"
HdrCLNeg ==
    <<67,111,110,116,101,110,116,45,76,101,110,103,116,104,58,32,45,49,13,10>>
    \* "Content-Length: -1\r\n"
HdrServer == <<83,101,114,118,101,114,58,32,120,13,10>>
    \* "Server: x\r\n"

HexDigit(n) == IF n < 10 THEN 48 + n ELSE 87 + n

RECURSIVE HexString(_)
\* n >= 0 in lower-case hexadecimal
HexString(n) ==
    IF n < 16 THEN <<HexDigit(n)>>
    ELSE HexString(n \div 16) \o <<HexDigit(n % 16)>>

RECURSIVE EncodeChunks(_)
\* each chunk as its size line, its bytes and CRLF
EncodeChunks(chunks) ==
    IF chunks = <<>> THEN <<>>
    ELSE HexString(Len(Head(chunks))) \o CRLF \o Head(chunks) \o CRLF
         \o EncodeChunks(Tail(chunks))

\* a chunked body on the wire: the chunks, then the zero-size chunk
EncodeChunked(chunks) == EncodeChunks(chunks) \o <<48, 13, 10, 13, 10>>

RECURSIVE DataBefore(_, _)
\* the chunk data bytes among the first n bytes of EncodeChunked(chunks)
DataBefore(chunks, n) ==
    IF chunks = <<>> \/ n <= 0 THEN <<>>
    ELSE With(Len(HexString(Len(Head(chunks)))) + 2, LAMBDA h :
           With(IF n - h < 0 THEN 0
                ELSE IF n - h > Len(Head(chunks)) THEN Len(Head(chunks))
                ELSE n - h, LAMBDA take :
             SubSeq(Head(chunks), 1, take)
             \o DataBefore(Tail(chunks), n - h - Len(Head(chunks)) - 2)))

\* how the response frames its body: the framing header, the body bytes on
\* the wire, and the body as a list of chunks
Framings ==
    { [kind |-> "fixed", hdr |-> HdrCL3, chunks |-> << <<97, 98, 99>> >>,
       wire |-> <<97, 98, 99>>],
      [kind |-> "fixed", hdr |-> HdrCL5,
       chunks |-> << <<104, 101, 108, 108, 111>> >>,
       wire |-> <<104, 101, 108, 108, 111>>],
      [kind |-> "chunked", hdr |-> HdrTE, chunks |-> << <<97, 98, 99>> >>,
       wire |-> EncodeChunked(<< <<97, 98, 99>> >>)],
      [kind |-> "chunked", hdr |-> HdrTE,
       chunks |-> << <<97, 98>>, <<99>> >>,
       wire |-> EncodeChunked(<< <<97, 98>>, <<99>> >>)],
      [kind |-> "none", hdr |-> <<>>, chunks |-> <<>>, wire |-> <<>>],
      \* Content-Length: -1 and no body
      [kind |-> "negative length", hdr |-> HdrCLNeg, chunks |-> <<>>,
       wire |-> <<>>],
      \* a chunk "ab", then the size line "zz"
      [kind |-> "bad size", hdr |-> HdrTE, chunks |-> << <<97, 98>> >>,
       wire |-> EncodeChunks(<< <<97, 98>> >>) \o <<122, 122, 13, 10>>],
      \* the size line "-1"
      [kind |-> "negative size", hdr |-> HdrTE, chunks |-> <<>>,
       wire |-> <<45, 49, 13, 10>>] }

StatusLines == { [line |-> StatusLine200, code |-> 200],
                 [line |-> StatusLine404, code |-> 404] }

\* the responses: a status line, headers, the blank line and the body
ReadCases ==
    { [status |-> sl, extra |-> x, framing |-> f] :
        sl \in StatusLines, x \in {<<>>, HdrServer}, f \in Framings }

CaseHead(c) == c.status.line \o c.extra \o c.framing.hdr \o CRLF
CaseFull(c) == CaseHead(c) \o c.framing.wire

RaceIdle ==
    /\ pc = "idle"
    /\ count = 0
    /\ useTLS = FALSE
    /\ bodyLimit = 0
    /\ k = 0
    /\ dialPc = <<>>
    /\ sock = <<>>
    /\ conns = <<>>
    /\ connErrors = <<>>
    /\ sent = <<>>
    /\ gate = 0
    /\ sendPc = <<>>
    /\ readPc = <<>>
    /\ rx = <<>>
    /\ results = <<>>
    /\ ret = NotReturned

\* fin: a response c of which the first cut bytes arrive before the stream
\* ends with the error end, read for slot idx under the body limit
InitRead ==
    /\ RaceIdle
    /\ fpc = "input"
    /\ fout = <<>>
    /\ \E c \in ReadCases, e \in {"EOF", "i/o timeout"}, l \in {2, 500},
          i \in {0, 1} :
          \E n \in 0..Len(CaseFull(c)) :
              fin = [case |-> c, cut |-> n, end |-> e, limit |-> l, idx |-> i]

FinStream == [data |-> SubSeq(CaseFull(fin.case), 1, fin.cut), end |-> fin.end]

\* lines 261-278 on the stream of fin
ReadApply ==
    /\ fpc = "input"
    /\ fpc' = "read"
    /\ fout' = [resp |-> readHTTPResponse(FinStream),
                task |-> readTask(fin.idx, FinStream, fin.limit)]
    /\ UNCHANGED <<fin, raceVars>>

NextRead == ReadApply

SpecRead == InitRead /\ [][NextRead]_vars

\* positions in the response of fin: the end of the status line, the end
\* of the header block, and whether the stream stopped before its end
LineEnd == Len(fin.case.status.line)
HeadEnd == Len(CaseHead(fin.case))
Truncated == fin.cut < Len(CaseFull(fin.case))

\* C9: only a failure to read the status line is a hard error of the slot;
\* once the status line was obtained, a read error (in the header lines or
\* in the body) is no hard error and the record carries the status code
C9_OnlyStatusLineIsHard ==
    (fpc = "read" /\ fin.cut >= LineEnd /\ Truncated) =>
        /\ fout.resp.err = NoErr
        /\ fout.task.entry.StatusCode = fin.case.status.code

\* the body bytes of fin's response that arrived before the stream stopped
BodyReceived ==
    IF fin.case.framing.kind = "fixed"
    THEN SubSeq(fin.case.framing.wire, 1, fin.cut - HeadEnd)
    ELSE DataBefore(fin.case.framing.chunks, fin.cut - HeadEnd)

\* C10: when status line and headers were read and the body stops short,
\* the record has the status code and the body bytes that were read (up to
\* the body limit), with Content-Length framing and with chunked framing
C10_PartialBodyKept ==
    (/\ fpc = "read"
     /\ fin.case.framing.kind \in {"fixed", "chunked"}
     /\ fin.cut >= HeadEnd
     /\ Truncated) =>
        /\ fout.task.entry.StatusCode = fin.case.status.code
        /\ fout.task.entry.Body =
              TextBody(LimitBody(BodyReceived, 0, fin.limit).Body)

-----------------------------------------------------------------------------
(* readChunkedBody on its own: chunk lists encoded on the wire and decoded  *)

MaxChunks == 3
MaxChunkLen == 2

\* body bytes that look like framing: '0' and '\n'
ChunkBytes == {48, LF}

\* chunks whose size line is "a" and "10"
LongChunks == { [i \in 1..10 |-> 97], [i \in 1..16 |-> 97] }

\* the non-empty chunks a body is cut into
ChunkSet == UNION { [1..n -> ChunkBytes] : n \in 1..MaxChunkLen } \cup LongChunks

\* a body together with a partition of it: the list of its chunks
ChunkLists == UNION { [1..n -> ChunkSet] : n \in 0..MaxChunks }

\* the zero-size chunk "0\r\n\r\n"
ZeroChunk == <<48, 13, 10, 13, 10>>

\* size lines that are no non-negative hexadecimal number:
\* "zz", the empty line, "3;x" (chunk extension), "0x3", and "-1"
BadSizeLines ==
    { <<122, 122, 13, 10>>, <<13, 10>>, <<51, 59, 120, 13, 10>>,
      <<48, 120, 51, 13, 10>>, <<45, 49, 13, 10>> }

RECURSIVE JoinChunks(_)
\* the body: the chunks one after the other
JoinChunks(chunks) ==
    IF chunks = <<>> THEN <<>> ELSE Head(chunks) \o JoinChunks(Tail(chunks))

\* fin: the chunks of a body and the size line that follows them
InitChunk ==
    /\ RaceIdle
    /\ fpc = "wire"
    /\ fout = <<>>
    /\ \E cs \in ChunkLists, t \in {ZeroChunk} \cup BadSizeLines :
          fin = [chunks |-> cs, last |-> t]

\* readChunkedBody on a reader holding the encoding of fin
ChunkDecode ==
    /\ fpc = "wire"
    /\ fpc' = "decoded"
    /\ fout' = readChunkedBody([data |-> EncodeChunks(fin.chunks) \o fin.last,
                                end |-> "EOF"], 1)
    /\ UNCHANGED <<fin, raceVars>>

NextChunk == ChunkDecode

SpecChunk == InitChunk /\ [][NextChunk]_vars

\* C11: a body cut into chunks, encoded as hex-size-prefixed chunks ended by
\* the zero-size chunk, is decoded by readChunkedBody to exactly the body,
\* with no error
C11_ChunkedRoundTrip ==
    (fpc = "decoded" /\ fin.last = ZeroChunk) =>
        fout = [body |-> JoinChunks(fin.chunks), err |-> NoErr,
                panic |-> FALSE]

\* a body of three chunks, one of them "0\n" and one with the two-digit
\* size line "10", has been decoded
C11_Witness ==
    /\ fpc = "decoded"
    /\ fin.last = ZeroChunk
    /\ Len(fin.chunks) = 3
    /\ fin.chunks[1] = <<48, LF>>
    /\ Len(fin.chunks[2]) = 16
    /\ Len(fout.body) = 19

\* C12: a chunk-size line that is no valid non-negative hexadecimal size ends
\* the decoding, which returns the body decoded so far with no error and no
\* other failure
C12_BadSizeLineEndsBody ==
    (fpc = "decoded" /\ fin.last \in BadSizeLines) =>
        fout = [body |-> JoinChunks(fin.chunks), err |-> NoErr,
                panic |-> FALSE]

-----------------------------------------------------------------------------
(* Request preparation (normalize.go 7-18, race_request.go 113-116, 426-456) *)

RECURSIVE Split(_, _)
\* strings.Split(s, sep) for a non-empty sep
Split(s, sep) ==
    With(IndexOf(s, sep), LAMBDA p :
      IF p = 0 THEN <<s>>
      ELSE <<SubSeq(s, 1, p - 1)>> \o Split(From(s, p - 1 + Len(sep)), sep))

RECURSIVE Join(_, _)
\* strings.Join(elems, sep)
Join(elems, sep) ==
    IF elems = <<>> THEN <<>>
    ELSE IF Len(elems) = 1 THEN elems[1]
    ELSE elems[1] \o sep \o Join(Tail(elems), sep)

\* strings.ReplaceAll(s, old, new) for a non-empty old: the parts of s between
\* the occurrences of old (left to right, not overlapping), joined by new
ReplaceAll(s, old, new) == Join(Split(s, old), new)

\* strings.HasSuffix
HasSuffix(s, p) ==
    Len(s) >= Len(p) /\ SubSeq(s, Len(s) - Len(p) + 1, Len(s)) = p

\* EndHeaders that adds a single CRLF whatever the end of s
EndHeadersOneCRLF(s) ==
    IF HasSuffix(s, CRLFCRLF) THEN s ELSE s \o CRLF

\* normalize.go 10-16: make s end with CRLF CRLF
EndHeaders(s) ==
    IF HasSuffix(s, CRLFCRLF) THEN s
    ELSE IF HasSuffix(s, CRLF) THEN s \o CRLF
    ELSE s \o CRLFCRLF

\* normalizeRawRequest(raw)
normalizeRawRequest(raw) ==
    EndHeaders(ReplaceAll(ReplaceAll(raw, <<CR, LF>>, <<LF>>),
                          <<LF>>, <<CR, LF>>))

RECURSIVE DecString(_)
\* fmt.Sprintf("%d", n) for n >= 0
DecString(n) ==
    IF n < 10 THEN <<48 + n>> ELSE DecString(n \div 10) \o <<48 + (n % 10)>>

\* fmt.Sprintf("Content-Length: %d", n)
ContentLengthLine(n) == <<67,111,110,116,101,110,116,45,76,101,110,103,116,104,58,32>> \o DecString(n)

\* line 440: the line is a Content-Length header
IsContentLength(line) == HasPrefix(ToLower(line), ContentLengthKey)

\* lines 437-453 of fixContentLength: the header lines rebuilt for the body
Rebuild(lines, body) ==
    With([i \in 1..Len(lines) |->
             IF IsContentLength(lines[i]) THEN ContentLengthLine(Len(body))
             ELSE lines[i]], LAMBDA rebuilt :
      IF (\A i \in 1..Len(lines) : ~IsContentLength(lines[i])) /\ Len(body) > 0
      THEN Append(rebuilt, ContentLengthLine(Len(body)))
      ELSE rebuilt)

\* fixContentLength(raw)
fixContentLength(raw) ==
    With(IndexOf(raw, CRLFCRLF), LAMBDA idx :
      IF idx = 0 THEN raw
      ELSE With(From(raw, idx - 1 + Len(CRLFCRLF)), LAMBDA body :
             Join(Rebuild(Split(SubSeq(raw, 1, idx - 1), CRLF), body), CRLF)
             \o CRLFCRLF \o body))

MaxRawLen == 4

\* every byte string of CR, LF and 'a' up to MaxRawLen bytes
RawStrings == UNION { [1..n -> {CR, LF, 97}] : n \in 0..MaxRawLen }

RequestLine == <<80,79,83,84,32,47,32,72,84,84,80,47,49,46,49>>    \* "POST / HTTP/1.1"
HdrHost == <<72,111,115,116,58,32,101,120,97,109,112,108,101,46,99,111,109>>    \* "Host: example.com"
HdrCL9 == <<67,111,110,116,101,110,116,45,76,101,110,103,116,104,58,32,57>>    \* "Content-Length: 9"
HdrLowerCL3 == <<99,111,110,116,101,110,116,45,108,101,110,103,116,104,58,32,51>>    \* "content-length: 3"
HdrAccept == <<65,99,99,101,112,116,58,32,42,47,42>>    \* "Accept: */*"

\* the header lists of the requests: Content-Length absent, stale, first,
\* between other headers, in lower case and twice
HeaderLists ==
    { <<HdrHost>>, <<HdrHost, HdrAccept>>, <<HdrHost, HdrCL9>>,
      <<HdrCL9, HdrHost>>, <<HdrHost, HdrCL9, HdrAccept>>,
      <<HdrHost, HdrLowerCL3>>, <<HdrCL9, HdrHost, HdrCL9>> }

\* the bodies the caller supplies: none, "abc", "abc\r\n\r\n", "a=1\n"
Bodies == { <<>>, <<97, 98, 99>>, <<97, 98, 99, 13, 10, 13, 10>>,
            <<97, 61, 49, 10>> }

\* the request text: request line, headers, blank line, body, with the
\* line ending eol in the header block
RequestText(hdrs, eol, body) ==
    Join(<<RequestLine>> \o hdrs, eol) \o eol \o eol \o body

\* fin: a raw request as the caller supplies it, either any short byte
\* string or a request made of header lines and a body
InitPrep ==
    /\ RaceIdle
    /\ fpc = "raw"
    /\ fout = <<>>
    /\ \/ \E s \in RawStrings :
             fin = [kind |-> "bytes", raw |-> s, hdrs |-> <<>>, body |-> <<>>]
       \/ \E h \in HeaderLists, e \in {<<LF>>, CRLF}, bd \in Bodies :
             fin = [kind |-> "request", raw |-> RequestText(h, e, bd),
                    hdrs |-> h, body |-> bd]

\* line 114: rawNorm := normalizeRawRequest(input.Raw)
Normalize ==
    /\ fpc = "raw"
    /\ fpc' = "normalized"
    /\ fout' = [norm |-> normalizeRawRequest(fin.raw), fixed |-> <<>>]
    /\ UNCHANGED <<fin, raceVars>>

\* line 115: rawNorm = fixContentLength(rawNorm)
FixLength ==
    /\ fpc = "normalized"
    /\ fpc' = "prepared"
    /\ fout' = [fout EXCEPT !.fixed = fixContentLength(fout.norm)]
    /\ UNCHANGED <<fin, raceVars>>

NextPrep == Normalize \/ FixLength

SpecPrep == InitPrep /\ [][NextPrep]_vars

\* the header lines of the prepared request, after the request line
PreparedHeaders ==
    Tail(Split(SubSeq(fout.fixed, 1, IndexOf(fout.fixed, CRLFCRLF) - 1), CRLF))

\* the lines of hdrs that are no Content-Length header, in their order
OtherHeaders(hdrs) == SelectSeq(hdrs, LAMBDA l : ~IsContentLength(l))

\* C13: after normalizeRawRequest and fixContentLength the request has a
\* Content-Length header, every Content-Length header carries the byte
\* length of the body the caller supplied, and the other headers are the
\* caller's in the caller's order
C13_ContentLengthIsBodyLength ==
    (fpc = "prepared" /\ fin.kind = "request" /\ fin.body # <<>>) =>
        /\ \E i \in 1..Len(PreparedHeaders) :
              IsContentLength(PreparedHeaders[i])
        /\ \A i \in 1..Len(PreparedHeaders) :
              IsContentLength(PreparedHeaders[i]) =>
                  PreparedHeaders[i] = ContentLengthLine(Len(fin.body))
        /\ OtherHeaders(PreparedHeaders) = OtherHeaders(fin.hdrs)

\* every line feed of s is preceded by a carriage return
EveryLFAfterCR(s) ==
    \A i \in 1..Len(s) : s[i] = LF => (i > 1 /\ s[i - 1] = CR)

\* C14: for every input, the result of normalizeRawRequest has a carriage
\* return before every line feed, ends with CRLF CRLF, and is returned
\* unchanged by normalizeRawRequest
C14_NormalizedAndIdempotent ==
    fpc = "normalized" =>
        /\ EveryLFAfterCR(fout.norm)
        /\ HasSuffix(fout.norm, CRLFCRLF)
        /\ normalizeRawRequest(fout.norm) = fout.norm

\* the input "\r\n\n\r" (a CRLF, a bare LF, a trailing CR) was normalized
\* to "\r\n\r\n\r\r\n\r\n"
C14_Witness ==
    /\ fpc = "normalized"
    /\ fin.raw = <<CR, LF, LF, CR>>
    /\ fout.norm = <<CR, LF, CR, LF, CR, CR, LF, CR, LF>>

-----------------------------------------------------------------------------
(* The parameters of raceRequestHandler (race_request.go 98-111) and the    *)
(* body limit applied to a response (271-277, parser.go 140-160)           *)

maxRaceCount == 50
defaultRaceCount == 10
defaultRaceBodyLimit == 500

\* CountBounds without the default for a count of 0 or less
CountBoundsNoDefault(n) == IF n > maxRaceCount THEN maxRaceCount ELSE n

\* lines 98-105: the count used for input.Count = n
CountBounds(n) ==
    With(IF n <= 0 THEN defaultRaceCount ELSE n, LAMBDA c :
      IF c > maxRaceCount THEN maxRaceCount ELSE c)

\* lines 107-111: the body limit used for input.BodyLimit = n
BodyLimitDefault(n) == IF n = 0 THEN defaultRaceBodyLimit ELSE n

MaxBodyLen == 3

\* n bytes 'A'
Repeat(n) == [i \in 1..n |-> 65]

\* response bodies: short ones, the 100 bytes of the parser test, bodies
\* around the default limit, and "A\n\nA"
ResponseBodies ==
    { Repeat(n) : n \in (0..MaxBodyLen) \cup {10, 100, 500, 501} }
    \cup { <<65, 10, 10, 65>> }

CountInputs == {0 - 1, 0, 1, 2, 10, 49, 50, 51, 100}
BodyLimitInputs == {0 - 1, 0, 1, 2, 10, 500}

\* fin: input.Count, input.BodyLimit and the response of one connection
InitParams ==
    /\ RaceIdle
    /\ fpc = "input"
    /\ fout = <<>>
    /\ \E c \in CountInputs, l \in BodyLimitInputs, s \in StatusLines,
          b \in ResponseBodies :
          fin = [Count |-> c, BodyLimit |-> l, status |-> s, body |-> b,
                 resp |-> s.line \o CRLF \o b]

\* lines 98-105
SetCount ==
    /\ fpc = "input"
    /\ fpc' = "count"
    /\ count' = CountBounds(fin.Count)
    /\ UNCHANGED <<fin, fout, pc, useTLS, bodyLimit, k, dialPc, sock, conns,
                   connErrors, sent, gate, sendPc, readPc, rx, results, ret>>

\* lines 107-111
SetBodyLimit ==
    /\ fpc = "count"
    /\ fpc' = "limit"
    /\ bodyLimit' = BodyLimitDefault(fin.BodyLimit)
    /\ UNCHANGED <<fin, fout, pc, count, useTLS, k, dialPc, sock, conns,
                   connErrors, sent, gate, sendPc, readPc, rx, results, ret>>

\* lines 271-277 for the response of fin: the parsed response and the entry
ParseBody ==
    /\ fpc = "limit"
    /\ fpc' = "parsed"
    /\ fout' = [parsed |-> ParseHTTPResponse(fin.resp, 0, bodyLimit),
                entry  |-> ParsedEntry(0, fin.resp, bodyLimit)]
    /\ UNCHANGED <<fin, raceVars>>

NextParams == SetCount \/ SetBodyLimit \/ ParseBody

SpecParams == InitParams /\ [][NextParams]_vars

\* C15: a body longer than the positive body limit is emitted cut to exactly
\* the limit, with Truncated = true and BodySize = the full body length; a
\* body no longer than the limit is emitted whole with Truncated = false;
\* a body limit of 0 stands for 500
C15_BodyLimit ==
    /\ fpc \in {"limit", "parsed"} =>
          /\ fin.BodyLimit = 0 => bodyLimit = 500
          /\ fin.BodyLimit > 0 => bodyLimit = fin.BodyLimit
    /\ (fpc = "parsed" /\ bodyLimit > 0) =>
          /\ ~fout.parsed.isNil
          /\ fout.parsed.BodySize = Len(fin.body)
          /\ fout.entry.Body = TextBody(fout.parsed.Body)
          /\ Len(fin.body) > bodyLimit =>
                /\ fout.parsed.Body = SubSeq(fin.body, 1, bodyLimit)
                /\ fout.parsed.Truncated
          /\ Len(fin.body) <= bodyLimit =>
                /\ fout.parsed.Body = fin.body
                /\ ~fout.parsed.Truncated

\* a body of 501 bytes was emitted as 500 bytes under a body limit of 0
C15_Witness ==
    /\ fpc = "parsed"
    /\ fin.BodyLimit = 0
    /\ Len(fin.body) = 501
    /\ Len(fout.entry.Body.text) = 500
    /\ fout.parsed.Truncated

\* C17: the count of connections to dial is within 1..50: an input of 0 or
\* less gives 10, an input above 50 gives 50, any other input is kept
C17_CountBounds ==
    fpc # "input" =>
        /\ count \in 1..50
        /\ fin.Count <= 0 => count = 10
        /\ fin.Count > 50 => count = 50
        /\ fin.Count \in 1..50 => count = fin.Count

\* a count of 51 was requested and 50 connections are to be dialled
C17_Witness ==
    /\ fpc = "count"
    /\ fin.Count = 51
    /\ count = 50

-----------------------------------------------------------------------------
(* The summary of raceRequestHandler (race_request.go 124-133)              *)

MaxEntries == 4

\* make(map[int]int)
EmptyMap == [c \in {} |-> 0]

\* TallyStep that stores 1 instead of adding 1
TallyStepNoIncrement(counts, code) == counts @@ (code :> 1)

\* line 126: statusCounts[code]++ (a missing key reads as 0)
TallyStep(counts, code) ==
    IF code \in DOMAIN counts THEN [counts EXCEPT ![code] = @ + 1]
    ELSE counts @@ (code :> 1)

RECURSIVE statusCountsOf(_, _)
\* lines 124-127: statusCounts after the first n entries of res
statusCountsOf(res, n) ==
    IF n = 0 THEN EmptyMap
    ELSE TallyStep(statusCountsOf(res, n - 1), res[n].StatusCode)

\* the orders in which range may visit the keys of the map m
KeyOrders(m) ==
    { o \in [1..Cardinality(DOMAIN m) -> DOMAIN m] :
        \A i, j \in DOMAIN o : o[i] = o[j] => i = j }

\* the entry of slot i: a response with status 200 or 404, the placeholder
\* of a connection that failed, or the record of a read error
EntryKinds == {"ok", "not found", "connection failed", "read error"}
EntryOf(i, kd) ==
    CASE kd = "ok" ->
           [Index |-> i, StatusCode |-> 200, Body |-> TextBody(<<97, 98, 99>>)]
      [] kd = "not found" ->
           [Index |-> i, StatusCode |-> 404, Body |-> TextBody(<<>>)]
      [] kd = "connection failed" ->
           FailedEntry(i, <<"connection refused">>)
      [] kd = "read error" ->
           [Index |-> i, StatusCode |-> 0,
            Body |-> ErrorBody("read error", <<"reading status line", "EOF">>)]

\* the result lists executeRace may return for 1..MaxEntries connections
ResultLists ==
    UNION { { [j \in 1..n |-> EntryOf(j - 1, ks[j])] :
                ks \in [1..n -> EntryKinds] } : n \in 1..MaxEntries }

\* fin: the results returned by executeRace
InitTally ==
    /\ RaceIdle
    /\ fpc = "results"
    /\ fout = <<>>
    /\ \E r \in ResultLists : fin = [results |-> r, count |-> Len(r)]

\* lines 124-133: the tally and the parts of the summary, one per status
\* code, in the order of the map iteration
Summarize ==
    /\ fpc = "results"
    /\ fpc' = "summary"
    /\ \E sc \in {statusCountsOf(fin.results, Len(fin.results))} :
          \E o \in KeyOrders(sc) :
              fout' = [statusCounts |-> sc,
                       sent  |-> fin.count,
                       parts |-> [i \in DOMAIN o |->
                                    [cnt |-> sc[o[i]], code |-> o[i]]]]
    /\ UNCHANGED <<fin, raceVars>>

NextTally == Summarize

SpecTally == InitTally /\ [][NextTally]_vars

\* the slots of fin whose entry carries the status code c
Carrying(c) == {i \in 1..Len(fin.results) : fin.results[i].StatusCode = c}

RECURSIVE SumOver(_, _)
\* the sum of m over the keys in keys
SumOver(m, keys) ==
    IF keys = {} THEN 0
    ELSE With(CHOOSE c \in keys : TRUE, LAMBDA c :
           m[c] + SumOver(m, keys \ {c}))

\* res in the order given by the permutation p of its positions
Reordered(res, p) == [i \in 1..Len(res) |-> res[p[i]]]

\* C16: the tally maps each status code to the number of entries carrying
\* it, error placeholders count under 0, the counts sum to the number of
\* entries, and the tally is the same for every order of the entries
C16_TallyCountsEntries ==
    fpc = "summary" =>
        /\ DOMAIN fout.statusCounts =
              {fin.results[i].StatusCode : i \in 1..Len(fin.results)}
        /\ \A c \in DOMAIN fout.statusCounts :
              fout.statusCounts[c] = Cardinality(Carrying(c))
        /\ \A i \in 1..Len(fin.results) :
              fin.results[i].Body.kind # "text" => i \in Carrying(0)
        /\ SumOver(fout.statusCounts, DOMAIN fout.statusCounts)
              = Len(fin.results)
        /\ \A p \in KeyOrders([i \in 1..Len(fin.results) |-> 0]) :
              statusCountsOf(Reordered(fin.results, p), Len(fin.results))
                  = fout.statusCounts

\* the codes 200, 404, 200 and an error placeholder were tallied
C16_Witness ==
    /\ fpc = "summary"
    /\ [i \in 1..Len(fin.results) |-> fin.results[i].StatusCode]
          = <<200, 404, 200, 0>>
    /\ fin.results[4].Body.kind = "connection failed"
    /\ fout.statusCounts = (200 :> 2) @@ (404 :> 1) @@ (0 :> 1)

-----------------------------------------------------------------------------
(* executeRace: the slots whose request was not completely sent             *)

\* the final-byte goroutine of slot i has run and its write failed
LastByteFailed(i) == sendPc[i] = "done" /\ ~LastSent(i)

\* C18: in the results that executeRace returns, a slot that never
\* connected, whose prefix write failed or whose final-byte write failed has
\* StatusCode 0 and an error text in place of a body (the entry is not made
\* from a parsed response)
C18_UnsentSlotIsErrorRecord ==
    (pc = "returned" /\ ~ret.isNil) =>
        \A i \in Slots :
            (At(connErrors, i) # NoErr \/ LastByteFailed(i)) =>
                /\ At(ret.results, i).Index = i
                /\ At(ret.results, i).StatusCode = 0
                /\ At(ret.results, i).Body.kind # "text"

-----------------------------------------------------------------------------
(* sendRequestHandler (send_request.go 43-137) over the answers of Burp     *)

RECURSIVE LastIndexFrom(_, _, _)
\* the last position at or before i where sub occurs in s, 0 when none
LastIndexFrom(s, sub, i) ==
    IF i < 1 THEN 0
    ELSE IF SubSeq(s, i, i + Len(sub) - 1) = sub THEN i
    ELSE LastIndexFrom(s, sub, i - 1)

\* strings.LastIndex as a 1-based position, 0 when sub does not occur in s
LastIndexOf(s, sub) == LastIndexFrom(s, sub, Len(s) - Len(sub) + 1)

annMarker == <<44,32,109,101,115,115,97,103,101,65,110,110,111,116,97,116,105,111,
      110,115,61,65,110,110,111,116,97,116,105,111,110,115,123>>
    \* ", messageAnnotations=Annotations{"
respMarker == <<44,32,104,116,116,112,82,101,115,112,111,110,115,101,61>>
    \* ", httpResponse="

\* burp.UnwrapResponse (parser.go 15-31)
UnwrapResponse(raw) ==
    With(LastIndexOf(raw, annMarker), LAMBDA a :
      With(IF a > 0 THEN SubSeq(raw, 1, a - 1) ELSE raw, LAMBDA cut :
        With(IndexOf(cut, respMarker), LAMBDA r :
          IF r > 0 THEN From(cut, r - 1 + Len(respMarker)) ELSE cut)))

HTTPPrefix == <<72, 84, 84, 80, 47>>    \* "HTTP/"
Code502 == <<53, 48, 50>>               \* "502"

\* lines 109-113: needsFallback for the unwrapped response text
NeedsFallback(responseText) ==
    \/ TrimSpace(responseText) = <<>>
    \/ /\ HasPrefix(responseText, HTTPPrefix)
       /\ SecondField(responseText).ok
       /\ SecondField(responseText).val = Code502

\* lines 87-90: the body limit used for input.BodyLimit = n
SendBodyLimit(n) == IF n = 0 THEN 2000 ELSE n

\* what a call of a Burp tool returns: an error, or a text
CallFailed == [err |-> <<"Burp error">>, text |-> <<>>]
BurpTexts ==
    { <<>>,
      <<32, 13, 10>>,
      <<72,84,84,80,47,49,46,49,32,50,48,48,32,79,75,13,10,13,10,104,101,108,
      108,111>>,
        \* "HTTP/1.1 200 OK\r\n\r\nhello"
      <<72,84,84,80,47,49,46,49,32,53,48,50,32,66,97,100,32,71,97,116,101,
      119,97,121,13,10,13,10>>,
        \* "HTTP/1.1 502 Bad Gateway\r\n\r\n"
      <<72,84,84,80,47,50,32,53,48,50,13,10,83,101,114,118,101,114,58,32,120,
      13,10,13,10>>,
        \* "HTTP/2 502\r\nServer: x\r\n\r\n" (no reason phrase)
      <<72,116,116,112,82,101,113,117,101,115,116,82,101,115,112,111,110,115,
      101,123,104,116,116,112,82,101,113,117,101,115,116,61,71,69,84,32,47,
      32,72,84,84,80,47,50,13,10,13,10,44,32,104,116,116,112,82,101,115,112,
      111,110,115,101,61,72,84,84,80,47,50,32,50,48,48,32,79,75,13,10,13,10,
      104,101,108,108,111,44,32,109,101,115,115,97,103,101,65,110,110,111,
      116,97,116,105,111,110,115,61,65,110,110,111,116,97,116,105,111,110,
      115,123,99,111,109,109,101,110,116,61,39,39,44,32,104,105,103,104,108,
      105,103,104,116,67,111,108,111,114,61,78,79,78,69,125,125>>,
        \* HttpRequestResponse{httpRequest=..., httpResponse=HTTP/2 200 OK...,
        \* messageAnnotations=Annotations{...}}
      <<72,116,116,112,82,101,113,117,101,115,116,82,101,115,112,111,110,115,
      101,123,104,116,116,112,82,101,113,117,101,115,116,61,71,69,84,32,47,
      32,72,84,84,80,47,50,13,10,13,10,44,32,104,116,116,112,82,101,115,112,
      111,110,115,101,61,72,84,84,80,47,50,32,53,48,50,32,66,97,100,32,71,97,
      116,101,119,97,121,13,10,13,10,44,32,109,101,115,115,97,103,101,65,110,
      110,111,116,97,116,105,111,110,115,61,65,110,110,111,116,97,116,105,
      111,110,115,123,99,111,109,109,101,110,116,61,39,39,44,32,104,105,103,
      104,108,105,103,104,116,67,111,108,111,114,61,78,79,78,69,125,125>>,
        \* the same around "HTTP/2 502 Bad Gateway\r\n\r\n"
      <<72,116,116,112,82,101,113,117,101,115,116,82,101,115,112,111,110,115,
      101,123,104,116,116,112,82,101,113,117,101,115,116,61,71,69,84,32,47,
      32,72,84,84,80,47,50,13,10,13,10,44,32,104,116,116,112,82,101,115,112,
      111,110,115,101,61,44,32,109,101,115,115,97,103,101,65,110,110,111,116,
      97,116,105,111,110,115,61,65,110,110,111,116,97,116,105,111,110,115,
      123,99,111,109,109,101,110,116,61,39,39,44,32,104,105,103,104,108,105,
      103,104,116,67,111,108,111,114,61,78,79,78,69,125,125>>
        \* the same around an empty response
    }
CallOutcomes == {CallFailed} \cup { [err |-> NoErr, text |-> t] : t \in BurpTexts }

\* the handler has not returned
SendRunning(calls, text) ==
    [calls |-> calls, responseText |-> text, returned |-> FALSE,
     err |-> NoErr, output |-> <<>>]

\* the handler returned the error e
SendFailed(calls, e) ==
    [calls |-> calls, responseText |-> <<>>, returned |-> TRUE,
     err |-> e, output |-> <<>>]

\* parser.go 212-221: the Host after the header line is looked at: the
\* value of the line when its key is "host" in any case
HeaderHost(line, host) ==
    With(TrimSpace(line), LAMBDA l :
      With(IndexOf(l, <<58>>), LAMBDA c :
        IF c > 1 /\ ToLower(TrimSpace(SubSeq(l, 1, c - 1))) = <<104, 111, 115, 116>>
        THEN TrimSpace(From(l, c))
        ELSE host))

RECURSIVE HostFrom(_, _)
\* parser.go 211-222: the loop over the header lines
HostFrom(lines, host) ==
    IF lines = <<>> THEN host
    ELSE HostFrom(Tail(lines), HeaderHost(Head(lines), host))

\* parser.go 175-224: the Host of burp.ParseRawRequest(raw)
ParseRawRequestHost(raw) ==
    With(ReplaceAll(raw, CRLF, <<LF>>), LAMBDA r :
      With(IndexOf(r, <<LF, LF>>), LAMBDA idx :
        HostFrom(Tail(Split(IF idx = 0 THEN r ELSE SubSeq(r, 1, idx - 1),
                            <<LF>>)),
                 <<>>)))

\* send_request.go 52-55: input.Host, or the parsed Host when it is empty
RequestHost(inputHost, raw) ==
    IF inputHost = <<>> THEN ParseRawRequestHost(raw) ELSE inputHost

\* fin: input.Raw, the host (input.Host, or the Host header when that is
\* empty) and input.BodyLimit
InitSend ==
    /\ RaceIdle
    /\ fpc = "input"
    /\ fout = SendRunning(<<>>, <<>>)
    /\ \E r \in {<<>>, RequestText(<<HdrHost>>, <<LF>>, <<>>),
                  RequestText(<<HdrAccept>>, <<LF>>, <<>>)},
          h \in {<<>>, <<120>>}, l \in {0, 2} :
          fin = [Raw |-> r, Host |-> h, BodyLimit |-> l]

\* lines 45-93: the checks of the input; the host is input.Host or, when
\* that is empty, the Host header of input.Raw
SendValidate ==
    /\ fpc = "input"
    /\ IF fin.Raw = <<>>
       THEN /\ fpc' = "returned"
            /\ fout' = SendFailed(<<>>, <<"raw HTTP request is required">>)
       ELSE IF RequestHost(fin.Host, fin.Raw) = <<>>
       THEN /\ fpc' = "returned"
            /\ fout' = SendFailed(<<>>,
                  <<"host is required (provide in input or Host header)">>)
       ELSE /\ fpc' = "http2"
            /\ fout' = fout
    /\ UNCHANGED <<fin, raceVars>>

\* lines 96-97: tryHTTP2
CallHTTP2 ==
    /\ fpc = "http2"
    /\ \E o \in CallOutcomes :
          /\ fout' = SendRunning(<<[tool |-> "send_http2_request", out |-> o]>>,
                                 o.text)
          /\ fpc' = IF o.err # NoErr THEN "http1" ELSE "unwrap"
    /\ UNCHANGED <<fin, raceVars>>

\* lines 98-103: tryHTTP1 after the error of tryHTTP2
FallbackOnError ==
    /\ fpc = "http1"
    /\ \E o \in CallOutcomes :
          \E calls \in {Append(fout.calls,
                               [tool |-> "send_http1_request", out |-> o])} :
              IF o.err # NoErr
              THEN /\ fpc' = "returned"
                   /\ fout' = SendFailed(calls, Wrap("request failed", o.err))
              ELSE /\ fpc' = "unwrap"
                   /\ fout' = SendRunning(calls, o.text)
    /\ UNCHANGED <<fin, raceVars>>

\* lines 106-114: unwrap the response text and decide on the fallback
CheckResponse ==
    /\ fpc = "unwrap"
    /\ \E text \in {UnwrapResponse(fout.responseText)} :
          /\ fout' = SendRunning(fout.calls, text)
          /\ fpc' = IF NeedsFallback(text) THEN "fallback" ELSE "parse"
    /\ UNCHANGED <<fin, raceVars>>

\* lines 115-118: tryHTTP1 for an empty or 502 response; its error is dropped
FallbackOnResponse ==
    /\ fpc = "fallback"
    /\ \E o \in CallOutcomes :
          fout' = SendRunning(
                    Append(fout.calls,
                           [tool |-> "send_http1_request", out |-> o]),
                    IF o.err = NoErr THEN UnwrapResponse(o.text)
                    ELSE fout.responseText)
    /\ fpc' = "parse"
    /\ UNCHANGED <<fin, raceVars>>

\* lines 122-135: parse the response and return the output
ParseResponse ==
    /\ fpc = "parse"
    /\ fpc' = "returned"
    /\ \E resp \in {ParseHTTPResponse(fout.responseText, 0,
                                      SendBodyLimit(fin.BodyLimit))} :
          fout' = IF resp.isNil
                  THEN SendFailed(fout.calls, <<"failed to parse response">>)
                  ELSE [calls |-> fout.calls,
                        responseText |-> fout.responseText,
                        returned |-> TRUE, err |-> NoErr,
                        output |-> [StatusCode |-> resp.StatusCode,
                                    Body |-> resp.Body,
                                    BodySize |-> resp.BodySize,
                                    Truncated |-> resp.Truncated]]
    /\ UNCHANGED <<fin, raceVars>>

NextSend ==
    \/ SendValidate
    \/ CallHTTP2
    \/ FallbackOnError
    \/ CheckResponse
    \/ FallbackOnResponse
    \/ ParseResponse

SpecSend == InitSend /\ [][NextSend]_vars

\* the calls of send_http1_request made so far
HTTP1Calls == SelectSeq(fout.calls, LAMBDA c : c.tool = "send_http1_request")

\* the status code of the response in the text a call returned
StatusOf(text) == ParseHTTPResponse(UnwrapResponse(text), 0, 0).StatusCode

\* C19: the first call is the HTTP/2 call; when the handler has returned,
\* an HTTP/1.1 call was made exactly when the HTTP/2 call returned an error,
\* an empty response or a response with status 502; and the handler returns
\* the error "request failed" only when the HTTP/2 call and the HTTP/1.1 call
\* both returned an error
C19_FallbackToHTTP1 ==
    (fpc = "returned" /\ fout.calls # <<>>) =>
        /\ fout.calls[1].tool = "send_http2_request"
        /\ HTTP1Calls # <<>> <=>
              \/ fout.calls[1].out.err # NoErr
              \/ TrimSpace(UnwrapResponse(fout.calls[1].out.text)) = <<>>
              \/ StatusOf(fout.calls[1].out.text) = 502
        /\ (fout.err # NoErr /\ Head(fout.err) = "request failed") =>
              \A i \in DOMAIN fout.calls : fout.calls[i].out.err # NoErr

-----------------------------------------------------------------------------
(* runServe (get_proxy_history.go 120-173): connect to Burp, register the   *)
(* tools, serve                                                            *)

\* the Register...Tool calls of lines 158-164, by the name of the tool each
\* of them adds
RunServeRegistrations ==
    << "burp_send_request", "burp_get_proxy_history",
       "burp_get_scanner_issues", "burp_create_repeater_tab",
       "burp_send_to_intruder", "burp_encode", "burp_decode" >>

\* the tools of the README's tools reference
DocumentedTools ==
    { "burp_send_request", "burp_race_request", "burp_get_proxy_history",
      "burp_get_scanner_issues", "burp_create_repeater_tab",
      "burp_send_to_intruder", "burp_encode", "burp_decode" }

\* getBurpURL (cmd/root.go 31-40): the flag, else the environment variable,
\* else the default
getBurpURL(flag, env) ==
    IF flag # "" THEN flag
    ELSE IF env # "" THEN env
    ELSE "http://127.0.0.1:9876/sse"

\* the state of runServe: the URL, the tools registered on the server in
\* their order, the last tool call served, and the error returned
ServeState(url, tools, last, err) ==
    [burpURL |-> url, tools |-> tools, last |-> last, err |-> err]

NoCall == [name |-> "", found |-> FALSE]

\* fin: the --burp-url flag and the BURP_MCP_URL variable
InitServe ==
    /\ RaceIdle
    /\ fpc = "start"
    /\ fout = ServeState("", <<>>, NoCall, NoErr)
    /\ \E f \in {"", "http://burp:1/sse"}, e \in {"", "http://burp:2/sse"} :
          fin = [flag |-> f, env |-> e]

\* lines 121-155: connect to Burp and create the server, or return the error
ServeConnect ==
    /\ fpc = "start"
    /\ \E url \in {getBurpURL(fin.flag, fin.env)} :
          \/ /\ fpc' = "register"
             /\ fout' = ServeState(url, <<>>, NoCall, NoErr)
          \/ /\ fpc' = "returned"
             /\ \E e \in {"failed to create Burp client",
                          "failed to connect to Burp MCP"} :
                   fout' = ServeState(url, <<>>, NoCall, <<e>>)
    /\ UNCHANGED <<fin, raceVars>>

\* lines 158-164: the next Register...Tool call
RegisterTool ==
    /\ fpc = "register"
    /\ fout' = [fout EXCEPT
                  !.tools = Append(@, RunServeRegistrations[Len(@) + 1])]
    /\ fpc' = IF Len(fout.tools) + 1 = Len(RunServeRegistrations)
              THEN "serving" ELSE "register"
    /\ UNCHANGED <<fin, raceVars>>

\* line 168, server.Run: a client calls a tool by its name; the call reaches
\* a handler when a tool of that name is registered
ServeCall ==
    /\ fpc = "serving"
    /\ \E n \in DocumentedTools :
          fout' = [fout EXCEPT
                     !.last = [name |-> n,
                               found |-> \E i \in DOMAIN fout.tools :
                                            fout.tools[i] = n]]
    /\ UNCHANGED <<fpc, fin, raceVars>>

\* lines 168-172: server.Run returns (the context was cancelled by a
\* signal, or the transport failed)
ServeStop ==
    /\ fpc = "serving"
    /\ fpc' = "returned"
    /\ \E e \in {NoErr, <<"server error">>} : fout' = [fout EXCEPT !.err = e]
    /\ UNCHANGED <<fin, raceVars>>

NextServe == ServeConnect \/ RegisterTool \/ ServeCall \/ ServeStop

SpecServe == InitServe /\ [][NextServe]_vars

\* C20: once the serve command has registered its tools, the registered tool
\* names are the 8 tools of the README's tools reference, burp_race_request
\* among them
C20_RegisteredToolsAreDocumented ==
    fpc = "serving" =>
        /\ {fout.tools[i] : i \in DOMAIN fout.tools} = DocumentedTools
        /\ Cardinality({fout.tools[i] : i \in DOMAIN fout.tools}) = 8
        /\ fout.last.name = "burp_race_request" => fout.last.found

-----------------------------------------------------------------------------
(* executeRace: the gate, the ownership of the slots, the phases            *)

\* gate.Done() of line 244 has run (an attack whose dials all failed
\* returns before the gate exists)
GateOpened ==
    \/ pc \in {"send_wait", "read_spawn", "read_wait", "aborted"}
    \/ pc = "returned" /\ ~ret.isNil

\* C21: the gate is closed by gate.Add(1) and opened by the one gate.Done();
\* no final-byte write is made on any slot before the gate was opened; once
\* open the gate stays open, and a goroutine that reaches gate.Wait() after
\* that passes without blocking
C21_GateOpensOnce ==
    /\ [](/\ gate \in {0, 1}
          /\ gate = 1 <=> pc \in {"send_spawn", "gate_done"}
          /\ ~GateOpened =>
                \A i \in Slots : /\ ~LastSent(i)
                                 /\ sendPc[i] \in {"none", "spawned", "waiting"})
    /\ [][/\ gate' # gate =>
                \/ pc = "gate_add" /\ gate = 0 /\ gate' = 1
                \/ pc = "gate_done" /\ gate = 1 /\ gate' = 0
          /\ GateOpened => gate' = 0 /\ GateOpened'
          /\ \A i \in Slots :
                (GateOpened /\ sendPc[i] = "spawned" /\ sendPc'[i] # "spawned")
                    => sendPc'[i] = "released"]_vars

\* the gate is open, one goroutine has written its final byte, another was
\* blocked on the gate and a third has not reached gate.Wait() yet
C21_Witness ==
    /\ pc = "send_wait"
    /\ gate = 0
    /\ \E a, b, c \in Slots :
          /\ LastSent(a)
          /\ sendPc[b] = "waiting"
          /\ sendPc[c] = "spawned"

\* a goroutine of slot j is running: the one dialing it, the one writing
\* its final byte or the one reading its response
DialRunning(j) == dialPc[j] \in {"dial", "handshake"}
FinalByteRunning(j) == sendPc[j] \in {"spawned", "waiting", "released"}
ReadRunning(j) == readPc[j] = "spawned"
TaskRunning(j) == DialRunning(j) \/ FinalByteRunning(j) \/ ReadRunning(j)

\* C22: slot j of conns, connErrors and results is written only by the
\* goroutine started for index j, or by the main goroutine while no
\* goroutine of index j is running; the main goroutine never touches conns
\* or connErrors while a dial goroutine runs, nor the element of results
\* of a read goroutine that runs
C22_SlotsOwnedByIndex ==
    /\ [](\A j \in Slots :
             /\ DialRunning(j) => pc \in {"dial_spawn", "dial_wait"}
             /\ ReadRunning(j) => /\ pc \in {"read_spawn", "read_wait", "aborted"}
                                  /\ pc = "read_spawn" => k > j)
    /\ [][\A j \in Slots :
             /\ (At(conns', j) # At(conns, j) \/ At(connErrors', j) # At(connErrors, j))
                   => \/ DialRunning(j) /\ dialPc'[j] # dialPc[j]
                      \/ pc = "prefix" /\ k = j /\ ~TaskRunning(j)
             /\ Len(results') # Len(results)
                   => pc = "send_wait" /\ \A i \in Slots : ~TaskRunning(i)
             /\ (Len(results') = Len(results) /\ results # <<>>
                   /\ At(results', j) # At(results, j))
                   => \/ ReadRunning(j) /\ readPc'[j] = "done"
                      \/ pc = "read_spawn" /\ k = j /\ ~TaskRunning(j)]_vars

C22_Witness ==
    /\ pc = "read_spawn"
    /\ \E a, b, c \in Slots :
          /\ readPc[a] = "done" /\ At(results, a).StatusCode = 200
          /\ ReadRunning(b)
          /\ PrefixFailed(c) /\ k = c

\* the prefix write of slot j can start: the loop of lines 209-224 is at
\* i = j
PrefixCanStart(j) == pc = "prefix" /\ k = j

\* C23: in phase A the prefix write of every connected slot that has not
\* been written yet can start at once, whatever the writes of the other
\* slots are doing
C23_PrefixWritesConcurrent ==
    pc = "prefix" =>
        \A j \in Slots :
            (At(conns, j) /\ sent[j] = <<>>) => PrefixCanStart(j)

\* the prefix loop has reached slot i: its prefix was written or the write
\* failed
PrefixStarted(i) == sent[i] # <<>> \/ PrefixFailed(i)

\* C24: the phases are separated by joins: once the prefix loop runs or
\* any prefix write has started, every dial goroutine has finished; once
\* any read goroutine has been started, the final-byte goroutine of every
\* slot that still has its connection has finished and none is running
C24_PhasesSeparatedByJoins ==
    /\ (pc = "prefix" \/ \E i \in Slots : PrefixStarted(i))
          => \A j \in Slots : dialPc[j] \in {"ok", "failed"}
    /\ (\E i \in Slots : readPc[i] # "none")
          => \A j \in Slots :
                 sendPc[j] = IF At(conns, j) THEN "done" ELSE "none"

C24_Witness ==
    /\ pc = "read_spawn"
    /\ \E a, b, c \in Slots :
          /\ readPc[a] = "spawned"
          /\ sendPc[b] = "done" /\ readPc[b] = "none"
          /\ dialPc[c] = "failed"

-----------------------------------------------------------------------------
(* The deadline of an attack: executeRace (154-160) and dialConn (286-311) *)
(* Times are counted in seconds.                                           *)

\* line 20: raceTimeout = 30 * time.Second
raceTimeout == 30

\* the most connections of an attack in this part
MaxDeadlineConns == 2

\* variant of RaceDeadline: the deadline of the context is not looked at
RaceDeadlineNoCtx(now, hasDeadline, d) == now + raceTimeout

\* lines 157-160: time.Now().Add(raceTimeout), or the deadline d of the
\* context when it has one and d.Before(deadline)
RaceDeadline(now, hasDeadline, d) ==
    IF hasDeadline /\ d < now + raceTimeout THEN d ELSE now + raceTimeout

\* a socket: where dialConn and the phases are with it, the I/O deadline
\* set on it (<<>> when none is), and the I/O done on it, each with the
\* I/O deadline in force when it was done
NewSocket == [state |-> "none", ioDeadline |-> <<>>, log |-> <<>>]

IO(s, op, state) ==
    [s EXCEPT !.state = state,
              !.log = Append(@, [op |-> op, under |-> s.ioDeadline])]

\* fin: the clock at the start, the context's deadline if it has one, the
\* number of connections and the scheme
InitDeadline ==
    /\ RaceIdle
    /\ fpc = "input"
    /\ fout = [deadline |-> <<>>, socks |-> <<>>]
    /\ \E now \in {0, 7}, ctx \in {<<>>, <<10>>, <<30>>, <<31>>},
          n \in 1..MaxDeadlineConns, tls \in BOOLEAN :
          fin = [now |-> now, hasDeadline |-> ctx # <<>>,
                 ctxDeadline |-> IF ctx = <<>> THEN 0 ELSE now + ctx[1],
                 count |-> n, useTLS |-> tls]

\* lines 154-165: the deadline is computed once, the slices are made
ComputeDeadline ==
    /\ fpc = "input"
    /\ fout' = [deadline |-> <<RaceDeadline(fin.now, fin.hasDeadline,
                                             fin.ctxDeadline)>>,
                socks |-> [j \in 1..fin.count |-> NewSocket]]
    /\ fpc' = "attack"
    /\ UNCHANGED <<fin, raceVars>>

\* lines 287-294: dialer.DialContext connects or fails
DialContext(i) ==
    /\ fpc = "attack"
    /\ At(fout.socks, i).state = "none"
    /\ \E ok \in BOOLEAN :
          fout' = [fout EXCEPT !.socks[i + 1].state =
                                   IF ok THEN "tcp" ELSE "failed"]
    /\ UNCHANGED <<fpc, fin, raceVars>>

\* lines 295-299: tcpConn.SetDeadline(deadline); without TLS dialConn
\* returns the connection
SetDeadline(i) ==
    /\ fpc = "attack"
    /\ At(fout.socks, i).state = "tcp"
    /\ fout' = [fout EXCEPT !.socks[i + 1] =
                   [@ EXCEPT !.ioDeadline = fout.deadline,
                             !.state = IF fin.useTLS THEN "tls" ELSE "ready"]]
    /\ UNCHANGED <<fpc, fin, raceVars>>

\* lines 301-310: the TLS handshake reads and writes on the TCP
\* connection; when it fails the connection is closed
HandshakeContext(i) ==
    /\ fpc = "attack"
    /\ At(fout.socks, i).state = "tls"
    /\ \E ok \in BOOLEAN :
          fout' = [fout EXCEPT !.socks[i + 1] =
                      IO(@, "handshake", IF ok THEN "ready" ELSE "closed")]
    /\ UNCHANGED <<fpc, fin, raceVars>>

\* lines 213-223: the prefix is written; when that fails the connection is
\* closed
WritePrefix(i) ==
    /\ fpc = "attack"
    /\ At(fout.socks, i).state = "ready"
    /\ \E ok \in BOOLEAN :
          fout' = [fout EXCEPT !.socks[i + 1] =
                      IO(@, "prefix", IF ok THEN "prefix sent" ELSE "closed")]
    /\ UNCHANGED <<fpc, fin, raceVars>>

\* line 239: the final byte is written
WriteLastByte(i) ==
    /\ fpc = "attack"
    /\ At(fout.socks, i).state = "prefix sent"
    /\ fout' = [fout EXCEPT !.socks[i + 1] = IO(@, "last byte", "sent")]
    /\ UNCHANGED <<fpc, fin, raceVars>>

\* line 263: the response is read
ReadResponse(i) ==
    /\ fpc = "attack"
    /\ At(fout.socks, i).state = "sent"
    /\ fout' = [fout EXCEPT !.socks[i + 1] = IO(@, "read", "read")]
    /\ UNCHANGED <<fpc, fin, raceVars>>

NextDeadline ==
    \/ ComputeDeadline
    \/ \E i \in 0..(fin.count - 1) : DialContext(i)
    \/ \E i \in 0..(fin.count - 1) : SetDeadline(i)
    \/ \E i \in 0..(fin.count - 1) : HandshakeContext(i)
    \/ \E i \in 0..(fin.count - 1) : WritePrefix(i)
    \/ \E i \in 0..(fin.count - 1) : WriteLastByte(i)
    \/ \E i \in 0..(fin.count - 1) : ReadResponse(i)

SpecDeadline == InitDeadline /\ [][NextDeadline]_vars

\* the earlier of start + 30 s and the context's deadline
EarlierDeadline ==
    IF fin.hasDeadline /\ fin.ctxDeadline <= fin.now + 30
    THEN fin.ctxDeadline ELSE fin.now + 30

\* C25: an attack has one deadline, the earlier of start + 30 s and the
\* context's deadline when it has one; every socket that carried any
\* handshake, request or response byte had exactly that deadline set as
\* its I/O deadline when the byte was written or read, and no socket ever
\* has another I/O deadline
C25_OneDeadlineOnEverySocket ==
    fpc = "attack" =>
        /\ fout.deadline = <<EarlierDeadline>>
        /\ \A j \in 1..Len(fout.socks) :
              /\ fout.socks[j].ioDeadline \in {<<>>, <<EarlierDeadline>>}
              /\ \A n \in 1..Len(fout.socks[j].log) :
                    fout.socks[j].log[n].under = <<EarlierDeadline>>

C25_Witness ==
    /\ fpc = "attack"
    /\ fin.useTLS
    /\ fin.hasDeadline /\ fin.ctxDeadline = 17
    /\ fout.deadline = <<17>>
    /\ Len(fout.socks) = 2
    /\ fout.socks[1].state = "read"
    /\ Len(fout.socks[1].log) = 4
    /\ fout.socks[2].state = "closed"

-----------------------------------------------------------------------------
(* sendRequestHandler: the number of calls of one invocation               *)

HTTP2Calls == SelectSeq(fout.calls, LAMBDA c : c.tool = "send_http2_request")

\* C26: one invocation of burp_send_request calls send_http2_request at
\* most once and send_http1_request at most once
C26_AtMostOneCallPerProtocol ==
    /\ Len(HTTP2Calls) <= 1
    /\ Len(HTTP1Calls) <= 1

-----------------------------------------------------------------------------
(* readHTTPResponse: every stream ends in a response or an error           *)

\* C27: whatever bytes the connection delivers, readHTTPResponse returns a
\* response or an error and the read goroutine stores an entry: neither
\* panics
C27_ReadNeverPanics ==
    fpc = "read" => ~fout.resp.panic /\ ~fout.task.panic

-----------------------------------------------------------------------------
(* executeRace: termination                                                *)

\* a step of the goroutine that runs executeRace
MainStep ==
    \/ DialSpawn \/ DialJoin \/ PrefixSkip \/ PrefixOk \/ PrefixFail
    \/ GateAdd \/ SendSpawn \/ GateDone \/ SendJoin \/ ReadSpawn \/ ReadJoin

\* a step of a goroutine started for slot i
TaskStep(i) ==
    /\ i \in Slots
    /\ \/ DialTCPFail(i) \/ DialTCPOk(i) \/ HandshakeFail(i) \/ HandshakeOk(i)
       \/ SendArrive(i) \/ SendWake(i) \/ SendWrite(i)
       \/ ReadTask(i)

\* the Go scheduler runs every goroutine that can run, and every socket
\* operation returns by the deadline: no goroutine that can take a step
\* waits for ever
SpecLive ==
    /\ Spec
    /\ WF_vars(MainStep)
    /\ \A i \in 0..(MaxCount - 1) : WF_vars(TaskStep(i))

\* C28: executeRace eventually returns, and when it has returned no
\* goroutine it started is still running or blocked
C28_EventuallyReturns ==
    /\ <>(pc = "returned")
    /\ [](pc = "returned" => \A i \in Slots : ~TaskRunning(i))

-----------------------------------------------------------------------------
(* executeRace: a slot has a connection or an error                        *)

\* the placeholder of slot i has been stored
PlaceholderStored(i) ==
    /\ ~At(conns, i)
    /\ \/ pc = "read_spawn" /\ k > i
       \/ pc = "read_wait"
       \/ pc = "returned" /\ ~ret.isNil

\* C29: from the dial join on, every slot either holds a connection whose
\* socket is open (until the deferred cleanup closes it at the return) and
\* no recorded error, or holds no connection, no open socket and a recorded
\* error that is not nil; the placeholder of a slot without a connection
\* cites that error
C29_ConnectionOrError ==
    pc \notin {"dial_spawn", "dial_wait"} =>
        \A i \in Slots :
            /\ At(conns, i) <=> At(connErrors, i) = NoErr
            /\ At(conns, i) =>
                  sock[i] = IF pc = "returned" THEN "closed" ELSE "open"
            /\ ~At(conns, i) => sock[i] # "open"
            /\ PlaceholderStored(i) =>
                  /\ At(results, i).Body.err = At(connErrors, i)
                  /\ At(results, i).Body.err # NoErr

C29_Witness ==
    /\ pc = "gate_add"
    /\ \E a, b, c \in Slots :
          /\ At(conns, a) /\ sent[a] = <<"prefix">>
          /\ dialPc[b] = "failed" /\ At(connErrors, b) = <<"connection refused">>
          /\ ~At(conns, c) /\ At(connErrors, c) = <<"prefix flush", "broken pipe">>

-----------------------------------------------------------------------------
(* The bytes an attack writes: raceRequestHandler (57-59, 113-116) and     *)
(* executeRace (205-241)                                                   *)

\* the slots of an attack in this part
SplitSlots == {0, 1}

\* variant of prefix: the whole request
prefixWhole(rawRequest) == rawRequest

\* line 206: rawRequest[:len(rawRequest)-1]
prefix(rawRequest) == SubSeq(rawRequest, 1, Len(rawRequest) - 1)

\* line 207: rawRequest[len(rawRequest)-1:]
lastByte(rawRequest) == SubSeq(rawRequest, Len(rawRequest), Len(rawRequest))

\* fin: the Raw and the Host of the input; every slot is connected and nothing was
\* written to it
InitSplit ==
    /\ RaceIdle
    /\ fpc = "input"
    /\ fout = [rawRequest |-> <<>>, prefix |-> <<>>, lastByte |-> <<>>,
               err |-> NoErr,
               slot |-> [i \in SplitSlots |->
                            [state |-> "connected", written |-> <<>>]]]
    /\ \E ih \in {<<>>, <<120>>} :
          \/ \E s \in RawStrings : fin = [Raw |-> s, Host |-> ih]
          \/ \E h \in {<<HdrHost>>, <<HdrHost, HdrCL9>>, <<HdrAccept>>},
                e \in {<<LF>>, CRLF}, bd \in {<<>>, <<97, 98, 99>>} :
                fin = [Raw |-> RequestText(h, e, bd), Host |-> ih]

\* lines 57-70 and 113-116: an empty Raw is refused, and so is a request
\* with neither input.Host nor a Host header (lines 64-70 are those of
\* send_request.go 52-58); otherwise the request is normalized and its
\* Content-Length fixed
PrepareRequest ==
    /\ fpc = "input"
    /\ IF fin.Raw = <<>>
       THEN /\ fpc' = "returned"
            /\ fout' = [fout EXCEPT !.err = <<"raw HTTP request is required">>]
       ELSE IF RequestHost(fin.Host, fin.Raw) = <<>>
       THEN /\ fpc' = "returned"
            /\ fout' = [fout EXCEPT !.err =
                  <<"host is required (provide in input or Host header)">>]
       ELSE /\ fpc' = "prepared"
            /\ fout' = [fout EXCEPT !.rawRequest =
                           fixContentLength(normalizeRawRequest(fin.Raw))]
    /\ UNCHANGED <<fin, raceVars>>

\* lines 205-207: the request is split
SplitRequest ==
    /\ fpc = "prepared"
    /\ fpc' = "writing"
    /\ fout' = [fout EXCEPT !.prefix = prefix(fout.rawRequest),
                            !.lastByte = lastByte(fout.rawRequest)]
    /\ UNCHANGED <<fin, raceVars>>

\* lines 213-223: the prefix is handed to the connection of slot i; when
\* Write or Flush fails the slot loses its connection
SendPrefix(i) ==
    /\ fpc = "writing"
    /\ fout.slot[i].state = "connected"
    /\ \E ok \in BOOLEAN :
          fout' = [fout EXCEPT !.slot[i] =
                      [state |-> IF ok THEN "prefix sent" ELSE "failed",
                       written |-> @.written \o fout.prefix]]
    /\ UNCHANGED <<fpc, fin, raceVars>>

\* lines 236-240: the final byte is handed to the connection of slot i;
\* the slot goes on to the read phase whatever Write returned
SendLastByte(i) ==
    /\ fpc = "writing"
    /\ fout.slot[i].state = "prefix sent"
    /\ fout' = [fout EXCEPT !.slot[i] =
                   [state |-> "sent", written |-> @.written \o fout.lastByte]]
    /\ UNCHANGED <<fpc, fin, raceVars>>

NextSplit ==
    \/ PrepareRequest
    \/ SplitRequest
    \/ \E i \in SplitSlots : SendPrefix(i)
    \/ \E i \in SplitSlots : SendLastByte(i)

SpecSplit == InitSplit /\ [][NextSplit]_vars

\* C30: the request that is split has at least 4 bytes; the final byte is
\* one byte; and on every slot that goes on to the read phase the bytes
\* handed to the connection are those of the prepared request, in order
\* and once each
C30_WrittenBytesAreTheRequest ==
    /\ fpc \in {"prepared", "writing"} =>
          /\ Len(fout.rawRequest) >= 4
          /\ fout.rawRequest = fixContentLength(normalizeRawRequest(fin.Raw))
    /\ fpc = "writing" =>
          /\ Len(fout.lastByte) = 1
          /\ Len(fout.prefix) = Len(fout.rawRequest) - 1
          /\ \A i \in SplitSlots :
                fout.slot[i].state = "sent" =>
                    fout.slot[i].written = fout.rawRequest

C30_Witness ==
    /\ fpc = "writing"
    /\ fin.Raw = <<97>>
    /\ fin.Host = <<120>>
    /\ fout.prefix = <<97, CR, LF, CR>>
    /\ fout.slot[0].state = "sent"
    /\ fout.slot[0].written = <<97, CR, LF, CR, LF>>
    /\ fout.slot[1].state = "failed"

=============================================================================
